---------------------------- MODULE Spec2Model ----------------------------
(***************************************************************************)
(* Function-selector derivation of fuel-abi-types:                         *)
(*   ResolvedType::try_from / resolve / determine_generics_for_type        *)
(*   (src/src/fn_selector/resolved_type.rs), fnselectify,                  *)
(*   resolve_fn_signature, resolve_fn_selector and                         *)
(*   first_four_bytes_of_sha256_hash (src/src/fn_selector/resolver.rs),    *)
(*   and the type_field parsers of src/src/utils.rs.                       *)
(*                                                                         *)
(* Strings are TLA+ strings; a Rust Option<Vec<T>> is a sequence of at     *)
(* most one element (<<>> is None, <<v>> is Some(v)); a Result is a record *)
(* [tag, val] with tag "Ok" or "Err", and a panic is the tag "Panic".      *)
(***************************************************************************)
EXTENDS Integers, Sequences, FiniteSets, TLC

\* resolve_fn_selector and resolve_fn_signature: inputs, locals, outcomes
VARIABLES type_lookup, arguments, name, pc, resolved, types, result, selector, earlier

\* FullABIFunction and UnifiedABIFunction, new and from_counterpart: inputs,
\* locals, the parameters `new` was called with, the outcome
VARIABLES target, abi_function, metadata_types, concrete_types, abi_pc, inputs, fn_output, new_args, function

selectorVars == <<type_lookup, arguments, name, pc, resolved, types, result, selector, earlier>>

abiVars == <<target, abi_function, metadata_types, concrete_types, abi_pc, inputs, fn_output, new_args, function>>

\* ErrorSignal::to_revert_code and try_from_revert_code: the signal and the
\* revert code given, the outcome of try_from_revert_code
VARIABLES signal, revert_code, signal_pc, signal_result

signalVars == <<signal, revert_code, signal_pc, signal_result>>

\* ResolvedType::try_from followed call by call: the lookup and the argument
\* given, the stack of the calls of resolve in progress, the value the last
\* finished call returned to its caller, the calls made, the outcome
VARIABLES resolve_lookup, argument, frames, returned, calls, outcome

resolveVars == <<resolve_lookup, argument, frames, returned, calls, outcome>>

\* UnifiedProgramABI::from_counterpart followed statement by statement: the
\* program given and whether the build checks arithmetic for overflow, the
\* function's locals, the concrete type its loop is at, where it is, and what
\* it returned
VARIABLES program_abi, overflow_checks, extended_concrete_types, extended_metadata_types,
          next_metadata_type_id, position, unify_pc, unified

unifyVars == <<program_abi, overflow_checks, extended_concrete_types, extended_metadata_types,
               next_metadata_type_id, position, unify_pc, unified>>

\* FullABIFunction::doc_strings: the function it is called on, where the call
\* is, and what it returned
VARIABLES documented_function, doc_pc, docs

docVars == <<documented_function, doc_pc, docs>>

vars == <<selectorVars, abiVars, signalVars, resolveVars, unifyVars, docVars>>

RECURSIVE resolve(_, _, _)
RECURSIVE resolve_each(_, _, _)
RECURSIVE determine_generics_for_type(_, _, _, _)
RECURSIVE fnselectify(_)
RECURSIVE fnselectify_each(_)
RECURSIVE join(_, _)
RECURSIVE to_string(_)
RECURSIVE parse_usize(_)
RECURSIVE trim_start(_)
RECURSIVE trim_end(_)
RECURSIVE zip(_, _)
RECURSIVE zip_from_end(_, _)
RECURSIVE StripZeros(_)
RECURSIVE ForestsOf(_, _)
RECURSIVE Absorb(_, _, _)
RECURSIVE Nodes(_)
RECURSIVE Calls(_, _, _)
RECURSIVE CommaSeparated(_)
RECURSIVE MentionsUndeclared(_, _)
RECURSIVE Closed(_, _)
RECURSIVE ReachFrom(_, _)
RECURSIVE IdsOf(_)
RECURSIVE UnfoldedSize(_, _)
RECURSIVE UnfoldedSizes(_, _)
RECURSIVE UnifiedTypeApplication_from_concrete_type_id(_, _, _)
RECURSIVE FullTypeApplication_from_concrete_type_id(_, _, _, _)
RECURSIVE FullTypeApplication_from_counterpart(_, _, _)
RECURSIVE FullTypeDeclaration_from_metadata_declaration(_, _, _)
RECURSIVE extend_concrete_types(_, _)
RECURSIVE UnifiedTypeApplication_from_counterpart(_, _)
RECURSIVE Sum(_, _)

---------------------------------------------------------------------------
(* Rust values *)

None == <<>>

Some(v) == <<v>>

\* Option<Vec<T>>::iter().flatten(): the elements of the vector, none for None
flatten(opt) == IF opt = None THEN <<>> ELSE opt[1]

Ok(v) == [tag |-> "Ok", val |-> v]

Err(e) == [tag |-> "Err", val |-> e]

Panic(msg) == [tag |-> "Panic", val |-> msg]

IsOk(r) == r.tag = "Ok"

TypeApplication(n, id, targs) == [name |-> n, type_id |-> id, type_arguments |-> targs]

TypeDeclaration(id, tf, comps, params) == [type_id |-> id, type_field |-> tf, components |-> comps, type_parameters |-> params]

ResolvedType(tf, gens, comps) == [type_field |-> tf, generic_params |-> gens, components |-> comps]

---------------------------------------------------------------------------
(* str helpers *)

CharAt(s, i) == SubSeq(s, i, i)

starts_with(s, p) == Len(s) >= Len(p) /\ SubSeq(s, 1, Len(p)) = p

ends_with(s, p) == Len(s) >= Len(p) /\ SubSeq(s, Len(s) - Len(p) + 1, Len(s)) = p

\* the regex class \s over the characters a type_field is written with
IsSpace(c) == c \in {" ", "\t", "\n", "\r", "\f"}

\* the regex class \d (ASCII digits)
IsDigit(c) == c \in {"0", "1", "2", "3", "4", "5", "6", "7", "8", "9"}

trim_start(s) == IF Len(s) > 0 /\ IsSpace(CharAt(s, 1)) THEN trim_start(SubSeq(s, 2, Len(s))) ELSE s

trim_end(s) == IF Len(s) > 0 /\ IsSpace(CharAt(s, Len(s))) THEN trim_end(SubSeq(s, 1, Len(s) - 1)) ELSE s

trim(s) == trim_end(trim_start(s))

AllChars(s, P(_)) == \A i \in 1..Len(s) : P(CharAt(s, i))

DigitValue(c) == CHOOSE d \in 0..9 : CharAt("0123456789", d + 1) = c

\* str::parse::<usize> of a string of digits (the model's lengths stay far below usize::MAX)
parse_usize(s) == IF Len(s) = 0 THEN 0 ELSE 10 * parse_usize(SubSeq(s, 1, Len(s) - 1)) + DigitValue(CharAt(s, Len(s)))

\* Display of a usize: decimal, no leading zeros
to_string(n) == IF n < 10 THEN CharAt("0123456789", n + 1) ELSE to_string(n \div 10) \o CharAt("0123456789", (n % 10) + 1)

\* Itertools::join / [String]::join
join(strs, sep) == IF strs = <<>> THEN "" ELSE IF Len(strs) = 1 THEN strs[1] ELSE strs[1] \o sep \o join(Tail(strs), sep)

\* zip pairing the first list with the second taken from its end
zip_from_end(xs, ys) == IF xs = <<>> \/ ys = <<>> THEN <<>> ELSE <<<<Head(xs), ys[Len(ys)]>>>> \o zip_from_end(Tail(xs), SubSeq(ys, 1, Len(ys) - 1))

\* std::iter::zip: pairs up to the shorter of the two
zip(xs, ys) == IF xs = <<>> \/ ys = <<>> THEN <<>> ELSE <<<<Head(xs), Head(ys)>>>> \o zip(Tail(xs), Tail(ys))

---------------------------------------------------------------------------
(* src/src/utils.rs *)

\* extract_generic_name whose pattern allows no white space around the tag
extract_generic_name_untrimmed(type_name) ==
    LET nm == SubSeq(type_name, 9, Len(type_name))
    IN  IF starts_with(type_name, "generic ") /\ Len(nm) > 0 /\ AllChars(nm, LAMBDA c : ~IsSpace(c))
        THEN Some(nm)
        ELSE None

\* Regex ^\s*generic\s+(\S+)\s*$ : Some(name) or None
extract_generic_name(type_name) ==
    LET t == trim(type_name)
        rest == SubSeq(t, 8, Len(t))
        nm == trim_start(rest)
    IN  IF /\ starts_with(t, "generic")
           /\ Len(rest) > 0 /\ IsSpace(CharAt(rest, 1))
           /\ Len(nm) > 0 /\ AllChars(nm, LAMBDA c : ~IsSpace(c))
        THEN Some(nm)
        ELSE None

\* extract_array_len whose pattern captures (\d) in place of (\d+)
extract_array_len_one_digit(type_name) ==
    LET t == trim(type_name)
        inner == SubSeq(t, 2, Len(t) - 1)
        semis == {k \in 1..Len(inner) : CharAt(inner, k) = ";"}
        last == CHOOSE k \in semis : \A j \in semis : j <= k
        digits == trim(SubSeq(inner, last + 1, Len(inner)))
    IN  IF /\ Len(t) >= 2 /\ CharAt(t, 1) = "[" /\ CharAt(t, Len(t)) = "]"
           /\ semis # {}
           /\ last >= 2 /\ AllChars(SubSeq(inner, 1, last - 1), LAMBDA c : c # "\n")
           /\ Len(digits) = 1 /\ AllChars(digits, IsDigit)
        THEN Some(parse_usize(digits))
        ELSE None

\* Regex ^\s*\[.+;\s*(\d+)\s*\]\s*$ then parse::<usize>: Some(len) or None
extract_array_len(type_name) ==
    LET t == trim(type_name)
        inner == SubSeq(t, 2, Len(t) - 1)
        semis == {k \in 1..Len(inner) : CharAt(inner, k) = ";"}
        last == CHOOSE k \in semis : \A j \in semis : j <= k
        digits == trim(SubSeq(inner, last + 1, Len(inner)))
    IN  IF /\ Len(t) >= 2 /\ CharAt(t, 1) = "[" /\ CharAt(t, Len(t)) = "]"
           /\ semis # {}
           /\ last >= 2 /\ AllChars(SubSeq(inner, 1, last - 1), LAMBDA c : c # "\n")
           /\ Len(digits) > 0 /\ AllChars(digits, IsDigit)
        THEN Some(parse_usize(digits))
        ELSE None

---------------------------------------------------------------------------
(* src/src/fn_selector/resolved_type.rs *)

\* find that takes the first pair whatever its id
find_first(parent_generic_params, id) ==
    IF parent_generic_params = <<>> THEN None ELSE Some(parent_generic_params[1])

\* the first (id, type) pair of the context whose id is `id`: slice::iter().find
find(parent_generic_params, id) ==
    LET hits == {i \in 1..Len(parent_generic_params) : parent_generic_params[i][1] = id}
    IN  IF hits = {} THEN None
        ELSE Some(parent_generic_params[CHOOSE i \in hits : \A j \in hits : i <= j])

\* .map(|ty| Self::resolve(ty, type_lookup, ctx)).collect::<Result<Vec<_>>>():
\* resolves left to right and stops at the first Err
resolve_each(apps, lookup, ctx) ==
    IF apps = <<>> THEN Ok(<<>>)
    ELSE LET first == resolve(Head(apps), lookup, ctx)
         IN  IF ~IsOk(first) THEN first
             ELSE LET rest == resolve_each(Tail(apps), lookup, ctx)
                  IN  IF ~IsOk(rest) THEN rest ELSE Ok(<<first.val>> \o rest.val)

\* determine_generics_for_type resolving the type arguments under an empty context
determine_generics_detached(type_application, lookup, type_declaration, parent_generic_params) ==
    LET params == flatten(type_declaration.type_parameters)
    IN  IF params # <<>>
        THEN LET generic_params_from_current_type == resolve_each(flatten(type_application.type_arguments), lookup, <<>>)
                 generics_to_use ==
                     IF generic_params_from_current_type.val # <<>>
                     THEN generic_params_from_current_type.val
                     ELSE [i \in 1..Len(parent_generic_params) |-> parent_generic_params[i][2]]
             IN  IF ~IsOk(generic_params_from_current_type)
                 THEN generic_params_from_current_type
                 ELSE Ok(zip(params, generics_to_use))
        ELSE Ok(parent_generic_params)

\* determine_generics_for_type resolving the type arguments also when the
\* declaration has no type parameters
determine_generics_resolving_all(type_application, lookup, type_declaration, parent_generic_params) ==
    LET params == flatten(type_declaration.type_parameters)
        generic_params_from_current_type == resolve_each(flatten(type_application.type_arguments), lookup, parent_generic_params)
        generics_to_use ==
            IF generic_params_from_current_type.val # <<>>
            THEN generic_params_from_current_type.val
            ELSE [i \in 1..Len(parent_generic_params) |-> parent_generic_params[i][2]]
    IN  IF ~IsOk(generic_params_from_current_type)
        THEN generic_params_from_current_type
        ELSE IF params # <<>>
        THEN Ok(zip(params, generics_to_use))
        ELSE Ok(parent_generic_params)

\* determine_generics_for_type refusing a number of chosen types other than
\* the number of type parameters
determine_generics_strict(type_application, lookup, type_declaration, parent_generic_params) ==
    LET params == flatten(type_declaration.type_parameters)
    IN  IF params # <<>>
        THEN LET generic_params_from_current_type == resolve_each(flatten(type_application.type_arguments), lookup, parent_generic_params)
                 generics_to_use ==
                     IF generic_params_from_current_type.val # <<>>
                     THEN generic_params_from_current_type.val
                     ELSE [i \in 1..Len(parent_generic_params) |-> parent_generic_params[i][2]]
             IN  IF ~IsOk(generic_params_from_current_type)
                 THEN generic_params_from_current_type
                 ELSE IF Len(params) # Len(generics_to_use)
                 THEN Err("FnSelectorResolving")
                 ELSE Ok(zip(params, generics_to_use))
        ELSE Ok(parent_generic_params)

\* determine_generics_for_type taking the parent's values from the last when
\* the application has no type arguments
determine_generics_from_last(type_application, lookup, type_declaration, parent_generic_params) ==
    LET params == flatten(type_declaration.type_parameters)
    IN  IF params # <<>>
        THEN LET generic_params_from_current_type == resolve_each(flatten(type_application.type_arguments), lookup, parent_generic_params)
                 generics_to_use ==
                     IF generic_params_from_current_type.val # <<>>
                     THEN generic_params_from_current_type.val
                     ELSE [i \in 1..Len(parent_generic_params) |-> parent_generic_params[Len(parent_generic_params) + 1 - i][2]]
             IN  IF ~IsOk(generic_params_from_current_type)
                 THEN generic_params_from_current_type
                 ELSE Ok(zip(params, generics_to_use))
        ELSE Ok(parent_generic_params)

\* determine_generics_for_type handing an empty context to the components of
\* a declaration without type parameters
determine_generics_dropping(type_application, lookup, type_declaration, parent_generic_params) ==
    LET params == flatten(type_declaration.type_parameters)
    IN  IF params # <<>>
        THEN LET generic_params_from_current_type == resolve_each(flatten(type_application.type_arguments), lookup, parent_generic_params)
                 generics_to_use ==
                     IF generic_params_from_current_type.val # <<>>
                     THEN generic_params_from_current_type.val
                     ELSE [i \in 1..Len(parent_generic_params) |-> parent_generic_params[i][2]]
             IN  IF ~IsOk(generic_params_from_current_type)
                 THEN generic_params_from_current_type
                 ELSE Ok(zip(params, generics_to_use))
        ELSE Ok(<<>>)

determine_generics_for_type(type_application, lookup, type_declaration, parent_generic_params) ==
    LET params == flatten(type_declaration.type_parameters)
    IN  IF params # <<>>
        THEN LET generic_params_from_current_type == resolve_each(flatten(type_application.type_arguments), lookup, parent_generic_params)
                 generics_to_use ==
                     IF generic_params_from_current_type.val # <<>>
                     THEN generic_params_from_current_type.val
                     ELSE [i \in 1..Len(parent_generic_params) |-> parent_generic_params[i][2]]
             IN  IF ~IsOk(generic_params_from_current_type)
                 THEN generic_params_from_current_type
                 ELSE Ok(zip(params, generics_to_use))
        ELSE Ok(parent_generic_params)

\* resolve giving a declaration without type parameters no generic_params
resolve_own_generics(type_application, lookup, parent_generic_params) ==
    IF type_application.type_id \notin DOMAIN lookup
    THEN Err("FnSelectorResolving")
    ELSE LET type_declaration == lookup[type_application.type_id]
         IN  IF extract_generic_name(type_declaration.type_field) # None
             THEN LET found == find(parent_generic_params, type_application.type_id)
                  IN  IF found = None THEN Err("FnSelectorResolving") ELSE Ok(found[1][2])
             ELSE LET generic_params_lookup == determine_generics_for_type(type_application, lookup, type_declaration, parent_generic_params)
                      components == resolve_each(flatten(type_declaration.components), lookup, generic_params_lookup.val)
                  IN  IF ~IsOk(generic_params_lookup) THEN generic_params_lookup
                      ELSE IF ~IsOk(components) THEN components
                      ELSE Ok(ResolvedType(type_declaration.type_field,
                                           IF flatten(type_declaration.type_parameters) = <<>> THEN <<>>
                                           ELSE [i \in 1..Len(generic_params_lookup.val) |-> generic_params_lookup.val[i][2]],
                                           components.val))

resolve(type_application, lookup, parent_generic_params) ==
    IF type_application.type_id \notin DOMAIN lookup
    THEN Err("FnSelectorResolving")
    ELSE LET type_declaration == lookup[type_application.type_id]
         IN  IF extract_generic_name(type_declaration.type_field) # None
             THEN LET found == find(parent_generic_params, type_application.type_id)
                  IN  IF found = None THEN Err("FnSelectorResolving") ELSE Ok(found[1][2])
             ELSE LET generic_params_lookup == determine_generics_for_type(type_application, lookup, type_declaration, parent_generic_params)
                      components == resolve_each(flatten(type_declaration.components), lookup, generic_params_lookup.val)
                  IN  IF ~IsOk(generic_params_lookup) THEN generic_params_lookup
                      ELSE IF ~IsOk(components) THEN components
                      ELSE Ok(ResolvedType(type_declaration.type_field,
                                           [i \in 1..Len(generic_params_lookup.val) |-> generic_params_lookup.val[i][2]],
                                           components.val))

\* try_from starting from a context that already binds the type id 1
try_from_bound(type_application, lookup) ==
    resolve(type_application, lookup, <<<<1, ResolvedType("u8", <<>>, <<>>)>>>>)

\* try_from that takes an undeclared type id for an empty type
try_from_defaulting(type_application, lookup) ==
    IF type_application.type_id \notin DOMAIN lookup
    THEN Ok(ResolvedType("", <<>>, <<>>))
    ELSE resolve(type_application, lookup, <<>>)

try_from(type_application, lookup) == resolve(type_application, lookup, <<>>)

---------------------------------------------------------------------------
(* src/src/fn_selector/resolver.rs *)

\* .iter().map(fnselectify) consumed to the end (by join): the encodings in
\* order, or the first panic
fnselectify_each(ttypes) ==
    IF ttypes = <<>> THEN Ok(<<>>)
    ELSE LET first == fnselectify(Head(ttypes))
         IN  IF ~IsOk(first) THEN first
             ELSE LET rest == fnselectify_each(Tail(ttypes))
                  IN  IF ~IsOk(rest) THEN rest ELSE Ok(<<first.val>> \o rest.val)

\* the struct and enum arms writing the angle brackets whatever the generics are
fnselectify_custom_bracketed(letter, ttype) ==
    LET strings == fnselectify_each(ttype.components)
        generics == fnselectify_each(ttype.generic_params)
    IN  IF ~IsOk(strings) THEN strings
        ELSE IF ~IsOk(generics) THEN generics
        ELSE Ok(letter \o "<" \o join(generics.val, ",") \o ">" \o "(" \o join(strings.val, ",") \o ")")

\* the struct arm (letter "s") and the enum arm (letter "e")
fnselectify_custom(letter, ttype) ==
    LET strings == fnselectify_each(ttype.components)
        generics == fnselectify_each(ttype.generic_params)
        generics_str == IF join(generics.val, ",") = "" THEN "" ELSE "<" \o join(generics.val, ",") \o ">"
    IN  IF ~IsOk(strings) THEN strings
        ELSE IF ~IsOk(generics) THEN generics
        ELSE Ok(letter \o generics_str \o "(" \o join(strings.val, ",") \o ")")

\* the tuple arm printing the generics as the struct arm does
fnselectify_tuple_with_generics(ttype) ==
    LET strings == fnselectify_each(ttype.components)
        generics == fnselectify_each(ttype.generic_params)
        generics_str == IF join(generics.val, ",") = "" THEN "" ELSE "<" \o join(generics.val, ",") \o ">"
    IN  IF ~IsOk(strings) THEN strings
        ELSE IF ~IsOk(generics) THEN generics
        ELSE Ok(generics_str \o "(" \o join(strings.val, ",") \o ")")

fnselectify_tuple(ttype) ==
    LET strings == fnselectify_each(ttype.components)
    IN  IF ~IsOk(strings) THEN strings ELSE Ok("(" \o join(strings.val, ",") \o ")")

\* .map(fnselectify).next() encodes the first component only
fnselectify_array(ttype) ==
    LET inner_array_type == fnselectify(ttype.components[1])
        len == extract_array_len(ttype.type_field)
    IN  IF ttype.components = <<>> THEN Panic("should have")
        ELSE IF ~IsOk(inner_array_type) THEN inner_array_type
        ELSE IF len = None THEN Panic("should be ok")
        ELSE Ok("a[" \o inner_array_type.val \o ";" \o to_string(len[1]) \o "]")

\* the `_` arm trimming the type_field
fnselectify_verbatim_trimmed(ttype) == Ok(trim(ttype.type_field))

\* the `_` arm
fnselectify_verbatim(ttype) == Ok(ttype.type_field)

fnselectify(ttype) ==
    IF ttype.type_field = "raw untyped slice" THEN Ok("rawslice")
    ELSE IF ttype.type_field = "raw untyped ptr" THEN Ok("rawptr")
    ELSE IF starts_with(ttype.type_field, "struct ") THEN fnselectify_custom("s", ttype)
    ELSE IF starts_with(ttype.type_field, "enum ") THEN fnselectify_custom("e", ttype)
    ELSE IF starts_with(ttype.type_field, "(") /\ ends_with(ttype.type_field, ")") THEN fnselectify_tuple(ttype)
    ELSE IF starts_with(ttype.type_field, "[") /\ ends_with(ttype.type_field, "]") THEN fnselectify_array(ttype)
    ELSE fnselectify_verbatim(ttype)

\* format_signature with ", " between the types
format_signature_spaced(fn_name, encoded) == fn_name \o "(" \o join(encoded, ", ") \o ")"

\* the outcome of an earlier call on the same inputs: none
NoCall == [result |-> [tag |-> "NoCall", val |-> ""], selector |-> [tag |-> "NoCall", val |-> ""]]

\* format_signature marking the signature of a call that follows another
format_signature_counting(fn_name, encoded) ==
    fn_name \o "(" \o join(encoded, ",") \o ")" \o (IF earlier = NoCall THEN "" ELSE "'")

\* format!("{name}({types})")
format_signature(fn_name, encoded) == fn_name \o "(" \o join(encoded, ",") \o ")"

Digits == "0123456789"

Upper == "ABCDEFGHIJKLMNOPQRSTUVWXYZ"

Lower == "abcdefghijklmnopqrstuvwxyz"

Punctuation == <<<<" ", 32>>, <<"(", 40>>, <<")", 41>>, <<",", 44>>, <<":", 58>>, <<";", 59>>, <<"<", 60>>, <<">", 62>>, <<"[", 91>>, <<"]", 93>>, <<"_", 95>>>>

IndexIn(s, c) == CHOOSE k \in 1..Len(s) : CharAt(s, k) = c

\* the UTF-8 byte of one character (the characters of the model's signatures are ASCII)
ByteOf(c) ==
    IF \E k \in 1..Len(Digits) : CharAt(Digits, k) = c THEN 47 + IndexIn(Digits, c)
    ELSE IF \E k \in 1..Len(Upper) : CharAt(Upper, k) = c THEN 64 + IndexIn(Upper, c)
    ELSE IF \E k \in 1..Len(Lower) : CharAt(Lower, k) = c THEN 96 + IndexIn(Lower, c)
    ELSE Punctuation[CHOOSE k \in 1..Len(Punctuation) : Punctuation[k][1] = c][2]

\* str::as_bytes
as_bytes(string) == [i \in 1..Len(string) |-> ByteOf(CharAt(string, i))]

\* Sha256::default().update(bytes).finalize(): the digest as an abstract
\* deterministic function from byte strings to 32 bytes
\* (the bytes lo..hi are absorbed by halves)
Absorb(bytes, lo, hi) ==
    IF lo > hi THEN 7
    ELSE IF lo = hi THEN (bytes[lo] * (lo + 2)) % 65521
    ELSE LET mid == (lo + hi) \div 2
         IN  (Absorb(bytes, lo, mid) * 31 + Absorb(bytes, mid + 1, hi) * 17 + hi) % 65521

Sha256(bytes) ==
    LET absorbed == Absorb(bytes, 1, Len(bytes))
    IN  [i \in 1..32 |-> ((absorbed + 1) * (i + 12)) % 256]

\* [T]::copy_from_slice: panics unless the two slices have the same length
copy_from_slice(dst, src) ==
    IF Len(dst) # Len(src)
    THEN Panic("source slice length does not match destination slice length")
    ELSE Ok(src)

\* the start of the destination range in `output[4..]`
OutputStart == 4

first_four_bytes_of_sha256_hash(string) ==
    LET string_as_bytes == as_bytes(string)
        hashed == Sha256(string_as_bytes)
        output == <<0, 0, 0, 0>>
        copied == copy_from_slice(SubSeq(output, OutputStart + 1, Len(output)), SubSeq(hashed, 1, 4))
    IN  IF ~IsOk(copied) THEN copied
        ELSE Ok(SubSeq(output, 1, OutputStart) \o copied.val)

---------------------------------------------------------------------------
(* Type lookups: the declarations of the resolver's tests, and declarations *)
(* of the further shapes a TypeDeclaration can take                         *)

\* declarations.into_iter().map(|decl| (decl.type_id, decl)).collect::<HashMap<_, _>>()
Lookup(decls) ==
    [id \in {decls[i].type_id : i \in DOMAIN decls} |->
        decls[CHOOSE i \in DOMAIN decls : decls[i].type_id = id /\ \A j \in DOMAIN decls : decls[j].type_id = id => j <= i]]

\* tests::handles_simple_types
SimpleTypeFields == {"u8", "u16", "u32", "u64", "bool", "b256", "()", "str[21]"}

DeclsSimple(type_field) == <<TypeDeclaration(0, type_field, None, None)>>

\* tests::handles_arrays
DeclsArrays ==
    << TypeDeclaration(0, "[_; 10]", Some(<<TypeApplication("__array_element", 1, None)>>), None),
       TypeDeclaration(1, "u8", None, None) >>

\* tests::handles_vectors_2
DeclsVectors ==
    << TypeDeclaration(1, "generic T", None, None),
       TypeDeclaration(2, "raw untyped ptr", None, None),
       TypeDeclaration(3, "struct std::vec::RawVec",
                       Some(<<TypeApplication("ptr", 2, None), TypeApplication("cap", 5, None)>>), Some(<<1>>)),
       TypeDeclaration(4, "struct std::vec::Vec",
                       Some(<<TypeApplication("buf", 3, Some(<<TypeApplication("", 1, None)>>)),
                              TypeApplication("len", 5, None)>>), Some(<<1>>)),
       TypeDeclaration(5, "u64", None, None),
       TypeDeclaration(6, "u8", None, None) >>

\* tests::CustomType::new_struct("SomeStruct")
DeclsStructs ==
    << TypeDeclaration(1, "u8", None, None),
       TypeDeclaration(2, "struct SomeStruct", Some(<<TypeApplication("_0", 1, None)>>), None) >>

\* tests::handles_generic_structs
DeclsGenericStructs ==
    << TypeDeclaration(1, "generic T", None, None),
       TypeDeclaration(2, "struct SomeStruct", Some(<<TypeApplication("field", 1, None)>>), Some(<<1>>)),
       TypeDeclaration(3, "u8", None, None) >>

\* tests::handles_enums
DeclsEnums ==
    << TypeDeclaration(1, "u8", None, None),
       TypeDeclaration(2, "enum SomeEnum", Some(<<TypeApplication("field", 1, None)>>), None) >>

\* tests::handles_generic_enums
DeclsGenericEnums ==
    << TypeDeclaration(1, "generic T", None, None),
       TypeDeclaration(2, "enum SomeEnum", Some(<<TypeApplication("field", 1, None)>>), Some(<<1>>)),
       TypeDeclaration(3, "u8", None, None) >>

\* two type parameters, a placeholder that has a component, a raw slice, a
\* generic struct applied without type arguments inside another
DeclsPairs ==
    << TypeDeclaration(1, "generic T", None, None),
       TypeDeclaration(2, "generic U", Some(<<TypeApplication("inner", 9, None)>>), None),
       TypeDeclaration(3, "struct Pair",
                       Some(<<TypeApplication("a", 1, None), TypeApplication("b", 2, None)>>), Some(<<1, 2>>)),
       TypeDeclaration(4, "enum Swap",
                       Some(<<TypeApplication("b", 2, None), TypeApplication("a", 1, None)>>), Some(<<1, 2>>)),
       TypeDeclaration(5, "raw untyped slice", None, None),
       TypeDeclaration(6, "bool", None, None),
       TypeDeclaration(7, "struct Holder", Some(<<TypeApplication("child", 10, None)>>), Some(<<1, 2>>)),
       TypeDeclaration(8, "generic K", None, None),
       TypeDeclaration(10, "struct Child", Some(<<TypeApplication("k", 8, None)>>), Some(<<8>>)) >>

\* array and tuple shapes: a length with a leading zero, no length, no
\* component, two components, white space around the brackets
DeclsShapes ==
    << TypeDeclaration(0, "u8", None, None),
       TypeDeclaration(1, "[_; 07]", Some(<<TypeApplication("__array_element", 0, None)>>), None),
       TypeDeclaration(2, "[_]", Some(<<TypeApplication("__array_element", 0, None)>>), None),
       TypeDeclaration(3, "[_; 2]", None, None),
       TypeDeclaration(4, "(_, _)",
                       Some(<<TypeApplication("__tuple_element", 0, None), TypeApplication("__tuple_element", 1, None)>>), None),
       TypeDeclaration(5, " [_; 3] ", Some(<<TypeApplication("__array_element", 0, None)>>), None) >>

\* type_field strings at the edges of the patterns: empty, white space in a
\* placeholder, a keyword without its space, a primitive with a component
DeclsOddFields ==
    << TypeDeclaration(0, "", None, None),
       TypeDeclaration(1, "  generic   T ", None, None),
       TypeDeclaration(2, "struct S", Some(<<TypeApplication("f", 1, None)>>), Some(<<1>>)),
       TypeDeclaration(3, "structS", Some(<<TypeApplication("f", 4, None)>>), None),
       TypeDeclaration(4, "u32", Some(<<TypeApplication("f", 0, None)>>), Some(<<>>)),
       TypeDeclaration(5, "enum E", Some(<<TypeApplication("f", 2, Some(<<>>))>>), Some(<<1>>)) >>

\* generics forwarded through declarations without type parameters, a
\* component whose type id is not declared, an array whose length is a name
DeclsForwarding ==
    << TypeDeclaration(1, "generic T", None, None),
       TypeDeclaration(2, "u8", None, None),
       TypeDeclaration(3, "(_, _)",
                       Some(<<TypeApplication("__tuple_element", 1, None), TypeApplication("__tuple_element", 2, None)>>), None),
       TypeDeclaration(4, "[_; 2]", Some(<<TypeApplication("__array_element", 3, None)>>), None),
       TypeDeclaration(5, "struct Outer", Some(<<TypeApplication("mid", 7, None)>>), Some(<<1>>)),
       TypeDeclaration(6, "struct Broken",
                       Some(<<TypeApplication("ok", 2, None), TypeApplication("gone", 8, None)>>), None),
       TypeDeclaration(7, "enum Mid", Some(<<TypeApplication("items", 4, None)>>), None),
       TypeDeclaration(9, "[_; N]", Some(<<TypeApplication("__array_element", 2, None)>>), None) >>

\* a struct without type parameters held by a generic enum
DeclsNested ==
    << TypeDeclaration(1, "generic T", None, None),
       TypeDeclaration(2, "u8", None, None),
       TypeDeclaration(3, "struct Plain", Some(<<TypeApplication("f", 2, None)>>), None),
       TypeDeclaration(4, "enum Wrap",
                       Some(<<TypeApplication("p", 3, None), TypeApplication("t", 1, None)>>), Some(<<1>>)) >>

\* declarations that reach themselves through their components: a struct
\* holding itself, and a struct and an enum holding each other
DeclsCyclic ==
    << TypeDeclaration(1, "u8", None, None),
       TypeDeclaration(2, "struct Node",
                       Some(<<TypeApplication("value", 1, None), TypeApplication("next", 2, None)>>), None),
       TypeDeclaration(3, "struct A", Some(<<TypeApplication("b", 4, None)>>), None),
       TypeDeclaration(4, "enum B", Some(<<TypeApplication("a", 3, None)>>), None) >>

\* the type ids a caller applies when nothing narrows them: the declared ones
\* and one that is not declared
AppliedIds(lookup) == DOMAIN lookup \cup {1 + CHOOSE m \in DOMAIN lookup : \A i \in DOMAIN lookup : i <= m}

\* a lookup's declarations with the type ids the calls against it apply
Fixture(decls, applied) == [decls |-> decls, applied |-> applied]

TestFixtures ==
    {Fixture(DeclsSimple(tf), {0, 1}) : tf \in SimpleTypeFields}
        \cup {Fixture(d, AppliedIds(Lookup(d))) : d \in {DeclsArrays, DeclsStructs, DeclsGenericStructs, DeclsEnums, DeclsGenericEnums}}
        \cup {Fixture(DeclsVectors, {1, 3, 4, 6, 7})}

ShapeFixtures ==
    { Fixture(DeclsPairs, {3, 4, 5, 6, 7}),
      Fixture(DeclsShapes, {1, 2, 3, 4, 5}),
      Fixture(DeclsOddFields, {0, 2, 3, 4, 5, 6}),
      Fixture(DeclsForwarding, {2, 4, 5, 6, 9}),
      Fixture(DeclsNested, {2, 3, 4}) }

Fixtures == TestFixtures \cup ShapeFixtures

---------------------------------------------------------------------------
(* The calls *)

\* the largest number of Type Applications (arguments and their type
\* arguments, nested) in the argument list of one call
MaxNodes == 3

\* the lists of Type Applications over `ids` holding exactly n applications
ForestsOf(ids, n) ==
    IF n = 0 THEN {<<>>}
    ELSE UNION {
            { <<TypeApplication("arg", id, IF k = 1 THEN None ELSE Some(targs))>> \o rest :
                id \in ids, targs \in ForestsOf(ids, k - 1), rest \in ForestsOf(ids, n - k) } :
            k \in 1..n }

Names == {"some_fn", "some_fun", ""}

\* the value of `name` before format! reads it
Unread == "<unread>"

Running == [tag |-> "Running", val |-> ""]

\* no revert code is being converted
SignalIdle ==
    /\ signal = "none"
    /\ revert_code = <<>>
    /\ signal_pc = "idle"
    /\ signal_result = Running

\* try_from is not being followed call by call
ResolveIdle ==
    /\ resolve_lookup = <<>>
    /\ argument = <<>>
    /\ frames = <<>>
    /\ returned = Running
    /\ calls = 0
    /\ outcome = Running

\* no program ABI is being unified
UnifyIdle ==
    /\ program_abi = <<>>
    /\ overflow_checks = FALSE
    /\ extended_concrete_types = <<>>
    /\ extended_metadata_types = <<>>
    /\ next_metadata_type_id = <<>>
    /\ position = 0
    /\ unify_pc = "idle"
    /\ unified = Running

\* doc_strings is not being called
DocIdle ==
    /\ documented_function = <<>>
    /\ doc_pc = "idle"
    /\ docs = Running

\* no ABI function is being built
AbiIdle ==
    /\ target = "none"
    /\ abi_function = <<>>
    /\ metadata_types = <<>>
    /\ concrete_types = <<>>
    /\ abi_pc = "idle"
    /\ inputs = <<>>
    /\ fn_output = None
    /\ new_args = None
    /\ function = Running

Init ==
    /\ \E fixture \in Fixtures, n \in 0..MaxNodes :
          /\ type_lookup = Lookup(fixture.decls)
          /\ arguments \in ForestsOf(fixture.applied, n)
    /\ name = Unread
    /\ pc = "collect"
    /\ resolved = <<>>
    /\ types = <<>>
    /\ result = Running
    /\ selector = Running
    /\ earlier = NoCall
    /\ AbiIdle
    /\ SignalIdle
    /\ ResolveIdle
    /\ UnifyIdle
    /\ DocIdle

\* resolve_fn_signature, one element of arguments.iter().map(try_from).map_ok(fnselectify)
\* pulled by collect: Err ends the call, a panic unwinds it
CollectArgument ==
    /\ pc = "collect"
    /\ Len(types) < Len(arguments)
    /\ LET t == try_from(arguments[Len(types) + 1], type_lookup)
           encoded == fnselectify(t.val)
       IN  IF ~IsOk(t)
           THEN /\ result' = t
                /\ pc' = "returned"
                /\ UNCHANGED <<resolved, types>>
           ELSE IF ~IsOk(encoded)
           THEN /\ result' = encoded
                /\ pc' = "returned"
                /\ resolved' = Append(resolved, t.val)
                /\ UNCHANGED types
           ELSE /\ resolved' = Append(resolved, t.val)
                /\ types' = Append(types, encoded.val)
                /\ UNCHANGED <<result, pc>>
    /\ UNCHANGED <<type_lookup, arguments, name, selector, earlier>>
    /\ UNCHANGED <<abiVars, signalVars, resolveVars, unifyVars, docVars>>

\* resolve_fn_signature, the join and format! after collect returned Ok
FormatSignature ==
    /\ pc = "collect"
    /\ Len(types) = Len(arguments)
    /\ \E fn_name \in (IF name = Unread THEN Names ELSE {name}) :
          /\ name' = fn_name
          /\ result' = Ok(format_signature(fn_name, types))
    /\ pc' = "returned"
    /\ UNCHANGED <<type_lookup, arguments, resolved, types, selector, earlier>>
    /\ UNCHANGED <<abiVars, signalVars, resolveVars, unifyVars, docVars>>

\* resolve_fn_selector after its call of resolve_fn_signature: `?` returns the
\* Err, a panic goes on unwinding, Ok is hashed
SelectSelector ==
    /\ pc = "returned"
    /\ selector' = IF IsOk(result) THEN first_four_bytes_of_sha256_hash(result.val) ELSE result
    /\ pc' = "selected"
    /\ UNCHANGED <<type_lookup, arguments, name, resolved, types, result, earlier>>
    /\ UNCHANGED <<abiVars, signalVars, resolveVars, unifyVars, docVars>>

Next == CollectArgument \/ FormatSignature \/ SelectSelector

Spec == Init /\ [][Next]_vars

\* the caller calls resolve_fn_selector a second time with the same name,
\* arguments and type lookup; the locals of the first call are gone
CallAgain ==
    /\ pc = "selected"
    /\ earlier = NoCall
    /\ earlier' = [result |-> result, selector |-> selector]
    /\ pc' = "collect"
    /\ resolved' = <<>>
    /\ types' = <<>>
    /\ result' = Running
    /\ selector' = Running
    /\ UNCHANGED <<type_lookup, arguments, name>>
    /\ UNCHANGED <<abiVars, signalVars, resolveVars, unifyVars, docVars>>

NextTwice == CollectArgument \/ FormatSignature \/ SelectSelector \/ CallAgain

SpecTwice == Init /\ [][NextTwice]_vars

---------------------------------------------------------------------------
(* src/src/abi/program.rs, unified_program.rs, full_program.rs *)

\* TypeId::Concrete(ConcreteTypeId(id))
Concrete(id) == [concrete |-> id]

\* TypeId::Metadata(MetadataTypeId(id))
Metadata(id) == [metadata |-> id]

TypeConcreteDeclaration(tf, cid, mid, targs) ==
    [type_field |-> tf, concrete_type_id |-> cid, metadata_type_id |-> mid, type_arguments |-> targs]

TypeMetadataDeclaration(tf, mid, comps, params) ==
    [type_field |-> tf, metadata_type_id |-> mid, components |-> comps, type_parameters |-> params]

\* program.rs TypeApplication, whose type_id is a TypeId
AbiTypeApplication(n, tid, msg, targs) ==
    [name |-> n, type_id |-> tid, error_message |-> msg, type_arguments |-> targs]

TypeConcreteParameter(n, cid) == [name |-> n, concrete_type_id |-> cid]

Attribute(n, args) == [name |-> n, arguments |-> args]

ABIFunction(n, ins, out, attrs) == [name |-> n, inputs |-> ins, output |-> out, attributes |-> attrs]

UnifiedTypeApplication(n, id, msg, targs) ==
    [name |-> n, type_id |-> id, error_message |-> msg, type_arguments |-> targs]

FullTypeDeclaration(tf, comps, params) == [type_field |-> tf, components |-> comps, type_parameters |-> params]

FullTypeApplication(n, decl, targs) == [name |-> n, type_decl |-> decl, type_arguments |-> targs]

\* error!(msg): an Error whose Display is msg
error(msg) == Err(msg)

\* iter().map(f).collect() over results computed left to right: the values,
\* or the first panic
collect(results) ==
    IF \E i \in DOMAIN results : ~IsOk(results[i])
    THEN results[CHOOSE i \in DOMAIN results : ~IsOk(results[i]) /\ \A j \in 1..(i - 1) : IsOk(results[j])]
    ELSE Ok([i \in DOMAIN results |-> results[i].val])

\* Option::unwrap of HashMap::get
get_unwrap(map, key) ==
    IF key \in DOMAIN map THEN Ok(map[key]) ELSE Panic("called Option::unwrap() on a None value")

\* if v.is_empty() { None } else { Some(v) }
none_if_empty(v) == IF v = <<>> THEN None ELSE Some(v)

UnifiedTypeApplication_from_concrete_type_id(n, concrete_type_id, concrete_types_lookup) ==
    LET concrete_type_decl == get_unwrap(concrete_types_lookup, concrete_type_id)
        ids == flatten(concrete_type_decl.val.type_arguments)
        type_arguments == collect([i \in DOMAIN ids |->
                              UnifiedTypeApplication_from_concrete_type_id("", ids[i], concrete_types_lookup)])
    IN  IF ~IsOk(concrete_type_decl) THEN concrete_type_decl
        ELSE IF ~IsOk(type_arguments) THEN type_arguments
        ELSE IF concrete_type_decl.val.metadata_type_id = None
        THEN Panic("called Option::unwrap() on a None value")
        ELSE Ok(UnifiedTypeApplication(n, concrete_type_decl.val.metadata_type_id[1], None,
                                       none_if_empty(type_arguments.val)))

FullTypeDeclaration_from_metadata_declaration(type_decl, metadata_types_lookup, concrete_types_lookup) ==
    LET apps == flatten(type_decl.components)
        components == collect([i \in DOMAIN apps |->
                          FullTypeApplication_from_counterpart(apps[i], metadata_types_lookup, concrete_types_lookup)])
        ids == flatten(type_decl.type_parameters)
        type_parameters == collect([i \in DOMAIN ids |->
                               LET decl == get_unwrap(metadata_types_lookup, Metadata(ids[i]))
                               IN  IF ~IsOk(decl) THEN decl
                                   ELSE FullTypeDeclaration_from_metadata_declaration(decl.val, metadata_types_lookup, concrete_types_lookup)])
    IN  IF ~IsOk(components) THEN components
        ELSE IF ~IsOk(type_parameters) THEN type_parameters
        ELSE Ok(FullTypeDeclaration(type_decl.type_field, components.val, type_parameters.val))

FullTypeApplication_from_counterpart(type_application, metadata_types_lookup, concrete_types_lookup) ==
    LET apps == flatten(type_application.type_arguments)
        type_arguments == collect([i \in DOMAIN apps |->
                              FullTypeApplication_from_counterpart(apps[i], metadata_types_lookup, concrete_types_lookup)])
        decl == get_unwrap(metadata_types_lookup, type_application.type_id)
        type_decl == FullTypeDeclaration_from_metadata_declaration(decl.val, metadata_types_lookup, concrete_types_lookup)
    IN  IF ~IsOk(type_arguments) THEN type_arguments
        ELSE IF ~IsOk(decl) THEN decl
        ELSE IF ~IsOk(type_decl) THEN type_decl
        ELSE Ok(FullTypeApplication(type_application.name, type_decl.val, type_arguments.val))

FullTypeApplication_from_concrete_type_id(n, concrete_type_id, metadata_types_lookup, concrete_types_lookup) ==
    LET concrete_decl == get_unwrap(concrete_types_lookup, concrete_type_id)
        builtin == get_unwrap(metadata_types_lookup, Concrete(concrete_type_id))
        builtin_decl == FullTypeDeclaration_from_metadata_declaration(builtin.val, metadata_types_lookup, concrete_types_lookup)
        ids == flatten(concrete_decl.val.type_arguments)
        type_arguments == collect([i \in DOMAIN ids |->
                              FullTypeApplication_from_concrete_type_id("", ids[i], metadata_types_lookup, concrete_types_lookup)])
        decl == get_unwrap(metadata_types_lookup, Metadata(concrete_decl.val.metadata_type_id[1]))
        type_decl == FullTypeDeclaration_from_metadata_declaration(decl.val, metadata_types_lookup, concrete_types_lookup)
    IN  IF ~IsOk(concrete_decl) THEN concrete_decl
        ELSE IF concrete_decl.val.metadata_type_id = None
        THEN (IF concrete_decl.val.type_arguments # None
              THEN Panic("When concrete_decl.metadata_type_id is none, concrete_decl.type_arguments must also be none.")
              ELSE IF ~IsOk(builtin) THEN builtin
              ELSE IF ~IsOk(builtin_decl) THEN builtin_decl
              ELSE Ok(FullTypeApplication(n, builtin_decl.val, <<>>)))
        ELSE IF ~IsOk(type_arguments) THEN type_arguments
        ELSE IF ~IsOk(decl) THEN decl
        ELSE IF ~IsOk(type_decl) THEN type_decl
        ELSE Ok(FullTypeApplication(n, type_decl.val, type_arguments.val))

\* FullABIFunction::new accepting every name
FullABIFunction_new_unchecked(n, ins, out, attrs) ==
    Ok([name |-> n, inputs |-> ins, output |-> out, attributes |-> attrs])

FullABIFunction_new(n, ins, out, attrs) ==
    IF Len(n) = 0
    THEN error("FullABIFunction's name cannot be empty!")
    ELSE Ok([name |-> n, inputs |-> ins, output |-> out, attributes |-> attrs])

UnifiedABIFunction_new(n, ins, out, attrs) ==
    IF Len(n) = 0
    THEN error("UnifiedABIFunction's name cannot be empty!")
    ELSE Ok([name |-> n, inputs |-> ins, output |-> out, attributes |-> Some(attrs)])

\* UnifiedProgramABI::from_counterpart: every concrete type without metadata
\* type id is given the next free one, in order
extend_concrete_types(concrete, next_id) ==
    IF concrete = <<>> THEN <<>>
    ELSE IF Head(concrete).metadata_type_id = None
    THEN <<[Head(concrete) EXCEPT !.metadata_type_id = Some(next_id)]>>
             \o extend_concrete_types(Tail(concrete), next_id + 1)
    ELSE <<Head(concrete)>> \o extend_concrete_types(Tail(concrete), next_id)

\* .iter().map(|v| v.metadata_type_id.0).max().unwrap_or(0) + 1
first_free_metadata_type_id(metadata) ==
    IF metadata = <<>> THEN 1
    ELSE 1 + CHOOSE m \in {metadata[i].metadata_type_id : i \in DOMAIN metadata} :
                 \A i \in DOMAIN metadata : metadata[i].metadata_type_id <= m

\* .iter().map(|ttype| (ttype.concrete_type_id.clone(), ttype.clone())).collect::<HashMap<_, _>>()
concrete_types_lookup_of(concrete) ==
    [id \in {concrete[i].concrete_type_id : i \in DOMAIN concrete} |->
        concrete[CHOOSE i \in DOMAIN concrete :
                    concrete[i].concrete_type_id = id /\ \A j \in DOMAIN concrete : concrete[j].concrete_type_id = id => j <= i]]

\* FullProgramABI::from_counterpart: the metadata declarations under their
\* TypeId::Metadata, and under each TypeId::Concrete the declaration of the
\* concrete type's metadata type, or one made of its type_field
metadata_types_lookup_of(metadata, concrete) ==
    [tid \in {Metadata(metadata[i].metadata_type_id) : i \in DOMAIN metadata}
              \cup {Concrete(concrete[i].concrete_type_id) : i \in DOMAIN concrete} |->
        IF DOMAIN tid = {"metadata"}
        THEN metadata[CHOOSE i \in DOMAIN metadata : metadata[i].metadata_type_id = tid.metadata]
        ELSE LET ctype == concrete_types_lookup_of(concrete)[tid.concrete]
             IN  IF ctype.metadata_type_id # None
                 THEN metadata[CHOOSE i \in DOMAIN metadata : metadata[i].metadata_type_id = ctype.metadata_type_id[1]]
                 ELSE TypeMetadataDeclaration(ctype.type_field, 0, None, None)]

\* the ABI document of program.rs's serialization try-out ("()" and
\* "enum MyError"), with a u8 and a generic struct instantiated with it
AbiConcreteTypes ==
    << TypeConcreteDeclaration("()", "c_unit", None, None),
       TypeConcreteDeclaration("enum MyError", "c_err", Some(0), None),
       TypeConcreteDeclaration("u8", "c_u8", None, None),
       TypeConcreteDeclaration("struct Vec<u8>", "c_vec", Some(1), Some(<<"c_u8">>)) >>

AbiMetadataTypes ==
    << TypeMetadataDeclaration("enum MyError", 0,
           Some(<<AbiTypeApplication("MyErrorVariant", Concrete("c_unit"), Some("My error variant error message."), None)>>), None),
       TypeMetadataDeclaration("struct Vec", 1,
           Some(<<AbiTypeApplication("buf", Metadata(2), None, None)>>), Some(<<2>>)),
       TypeMetadataDeclaration("generic T", 2, None, None) >>

\* the concrete type ids a function of the document mentions, and one that
\* the document does not declare
AbiAppliedIds == {"c_unit", "c_err", "c_vec", "c_gone"}

\* the largest number of inputs of an ABI function
MaxInputs == 2

\* the sequences over `elements` of length up to n
SeqsUpTo(elements, n) == UNION {[1..k -> elements] : k \in 0..n}

AbiAttributes == {None, Some(<<Attribute("payable", <<>>)>>), Some(<<Attribute("doc-comment", <<"doc">>)>>)}

AbiNames == {"", " ", "main"}

AbiFunctions ==
    { ABIFunction(n, ins, out, attrs) :
        n \in AbiNames,
        ins \in SeqsUpTo({TypeConcreteParameter("arg", cid) : cid \in AbiAppliedIds}, MaxInputs),
        out \in AbiAppliedIds,
        attrs \in AbiAttributes }

\* T::from_concrete_type_id of the target's type application
from_concrete_type_id(n, concrete_type_id) ==
    IF target = "Full"
    THEN FullTypeApplication_from_concrete_type_id(n, concrete_type_id, metadata_types, concrete_types)
    ELSE UnifiedTypeApplication_from_concrete_type_id(n, concrete_type_id, concrete_types)

\* T::new of the target's function
new(n, ins, out, attrs) ==
    IF target = "Full" THEN FullABIFunction_new(n, ins, out, attrs) ELSE UnifiedABIFunction_new(n, ins, out, attrs)

\* no function is being resolved
SelectorIdle ==
    /\ type_lookup = <<>>
    /\ arguments = <<>>
    /\ name = Unread
    /\ pc = "idle"
    /\ resolved = <<>>
    /\ types = <<>>
    /\ result = Running
    /\ selector = Running
    /\ earlier = NoCall

InitAbi ==
    /\ SelectorIdle
    /\ SignalIdle
    /\ ResolveIdle
    /\ UnifyIdle
    /\ DocIdle
    /\ target \in {"Full", "Unified"}
    /\ abi_function \in AbiFunctions
    /\ concrete_types =
          IF target = "Full"
          THEN concrete_types_lookup_of(AbiConcreteTypes)
          ELSE concrete_types_lookup_of(extend_concrete_types(AbiConcreteTypes, first_free_metadata_type_id(AbiMetadataTypes)))
    /\ metadata_types = IF target = "Full" THEN metadata_types_lookup_of(AbiMetadataTypes, AbiConcreteTypes) ELSE <<>>
    /\ abi_pc = "start"
    /\ inputs = <<>>
    /\ fn_output = None
    /\ new_args = None
    /\ function = Running

\* from_counterpart, one input converted by the map that collect drives
ConvertInput ==
    /\ abi_pc \in {"start", "inputs"}
    /\ Len(inputs) < Len(abi_function.inputs)
    /\ LET input == abi_function.inputs[Len(inputs) + 1]
           converted == from_concrete_type_id(input.name, input.concrete_type_id)
       IN  IF IsOk(converted)
           THEN /\ inputs' = Append(inputs, converted.val)
                /\ abi_pc' = "inputs"
                /\ UNCHANGED function
           ELSE /\ function' = converted
                /\ abi_pc' = "done"
                /\ UNCHANGED inputs
    /\ UNCHANGED <<target, abi_function, metadata_types, concrete_types, fn_output, new_args>>
    /\ UNCHANGED <<selectorVars, signalVars, resolveVars, unifyVars, docVars>>

\* from_counterpart, the output converted as an argument of the call of new
ConvertOutput ==
    /\ abi_pc \in {"start", "inputs"}
    /\ Len(inputs) = Len(abi_function.inputs)
    /\ LET converted == from_concrete_type_id("", abi_function.output)
       IN  IF IsOk(converted)
           THEN /\ fn_output' = Some(converted.val)
                /\ abi_pc' = "output"
                /\ UNCHANGED function
           ELSE /\ function' = converted
                /\ abi_pc' = "done"
                /\ UNCHANGED fn_output
    /\ UNCHANGED <<target, abi_function, metadata_types, concrete_types, inputs, new_args>>
    /\ UNCHANGED <<selectorVars, signalVars, resolveVars, unifyVars, docVars>>

\* from_counterpart, the call of new
FromCounterpartNew ==
    /\ abi_pc = "output"
    /\ LET attributes == flatten(abi_function.attributes)
       IN  /\ new_args' = Some([name |-> abi_function.name, inputs |-> inputs, output |-> fn_output[1], attributes |-> attributes])
           /\ function' = new(abi_function.name, inputs, fn_output[1], attributes)
    /\ abi_pc' = "done"
    /\ UNCHANGED <<target, abi_function, metadata_types, concrete_types, inputs, fn_output>>
    /\ UNCHANGED <<selectorVars, signalVars, resolveVars, unifyVars, docVars>>

\* the type applications a caller of new has at hand
GivenApplications == {from_concrete_type_id("given", cid).val : cid \in AbiAppliedIds \ {"c_gone"}}

\* a call of new by a caller that has the inputs and the output
New ==
    /\ abi_pc = "start"
    /\ \E n \in AbiNames, ins \in SeqsUpTo(GivenApplications, 1), out \in GivenApplications,
          attrs \in {<<>>, <<Attribute("payable", <<>>)>>} :
          /\ new_args' = Some([name |-> n, inputs |-> ins, output |-> out, attributes |-> attrs])
          /\ function' = new(n, ins, out, attrs)
    /\ abi_pc' = "done"
    /\ UNCHANGED <<target, abi_function, metadata_types, concrete_types, inputs, fn_output>>
    /\ UNCHANGED <<selectorVars, signalVars, resolveVars, unifyVars, docVars>>

NextAbi == ConvertInput \/ ConvertOutput \/ FromCounterpartNew \/ New

SpecAbi == InitAbi /\ [][NextAbi]_vars

---------------------------------------------------------------------------
(* src/src/error_codes.rs; a u64 is written as its four 16-bit limbs, the *)
(* most significant first                                                 *)

FAILED_REQUIRE_SIGNAL == <<65535, 65535, 65535, 0>>

FAILED_TRANSFER_TO_ADDRESS_SIGNAL == <<65535, 65535, 65535, 1>>

FAILED_SEND_MESSAGE_SIGNAL == <<65535, 65535, 65535, 2>>

FAILED_ASSERT_EQ_SIGNAL == <<65535, 65535, 65535, 3>>

FAILED_ASSERT_SIGNAL == <<65535, 65535, 65535, 4>>

FAILED_ASSERT_NE_SIGNAL == <<65535, 65535, 65535, 5>>

REVERT_WITH_LOG_SIGNAL == <<65535, 65535, 65535, 6>>

ErrorSignal == {"Require", "TransferToAddress", "SendMessage", "AssertEq", "Assert", "AssertNe", "RevertWithLog"}

\* Error::UnknownRevertCode(code)
UnknownRevertCode(code) == [UnknownRevertCode |-> code]

\* try_from_revert_code with the codes of assert and assert_eq exchanged
try_from_revert_code_exchanged(code) ==
    IF code = FAILED_REQUIRE_SIGNAL THEN Ok("Require")
    ELSE IF code = FAILED_TRANSFER_TO_ADDRESS_SIGNAL THEN Ok("TransferToAddress")
    ELSE IF code = FAILED_SEND_MESSAGE_SIGNAL THEN Ok("SendMessage")
    ELSE IF code = FAILED_ASSERT_SIGNAL THEN Ok("AssertEq")
    ELSE IF code = FAILED_ASSERT_EQ_SIGNAL THEN Ok("Assert")
    ELSE IF code = FAILED_ASSERT_NE_SIGNAL THEN Ok("AssertNe")
    ELSE IF code = REVERT_WITH_LOG_SIGNAL THEN Ok("RevertWithLog")
    ELSE Err(UnknownRevertCode(code))

try_from_revert_code(code) ==
    IF code = FAILED_REQUIRE_SIGNAL THEN Ok("Require")
    ELSE IF code = FAILED_TRANSFER_TO_ADDRESS_SIGNAL THEN Ok("TransferToAddress")
    ELSE IF code = FAILED_SEND_MESSAGE_SIGNAL THEN Ok("SendMessage")
    ELSE IF code = FAILED_ASSERT_EQ_SIGNAL THEN Ok("AssertEq")
    ELSE IF code = FAILED_ASSERT_SIGNAL THEN Ok("Assert")
    ELSE IF code = FAILED_ASSERT_NE_SIGNAL THEN Ok("AssertNe")
    ELSE IF code = REVERT_WITH_LOG_SIGNAL THEN Ok("RevertWithLog")
    ELSE Err(UnknownRevertCode(code))

to_revert_code(self) ==
    CASE self = "Require" -> FAILED_REQUIRE_SIGNAL
      [] self = "TransferToAddress" -> FAILED_TRANSFER_TO_ADDRESS_SIGNAL
      [] self = "SendMessage" -> FAILED_SEND_MESSAGE_SIGNAL
      [] self = "AssertEq" -> FAILED_ASSERT_EQ_SIGNAL
      [] self = "Assert" -> FAILED_ASSERT_SIGNAL
      [] self = "AssertNe" -> FAILED_ASSERT_NE_SIGNAL
      [] self = "RevertWithLog" -> REVERT_WITH_LOG_SIGNAL

\* the values of the upper three limbs, and of the lowest, of the revert
\* codes a caller passes
UpperLimbs == {0, 65534, 65535}

LowestLimbs == 0..8 \cup {65535}

RevertCodes == {<<a, b, c, d>> : a \in UpperLimbs, b \in UpperLimbs, c \in UpperLimbs, d \in LowestLimbs}

InitSignal ==
    /\ SelectorIdle
    /\ AbiIdle
    /\ ResolveIdle
    /\ UnifyIdle
    /\ DocIdle
    /\ \/ signal \in ErrorSignal /\ revert_code = <<>>
       \/ signal = "none" /\ revert_code \in RevertCodes
    /\ signal_pc = "start"
    /\ signal_result = Running

\* ErrorSignal::to_revert_code(signal)
ToRevertCode ==
    /\ signal_pc = "start"
    /\ signal \in ErrorSignal
    /\ revert_code' = to_revert_code(signal)
    /\ signal_pc' = "code"
    /\ UNCHANGED <<signal, signal_result>>
    /\ UNCHANGED <<selectorVars, abiVars, resolveVars, unifyVars, docVars>>

\* ErrorSignal::try_from_revert_code(revert_code)
TryFromRevertCode ==
    /\ \/ signal_pc = "code"
       \/ signal_pc = "start" /\ signal = "none"
    /\ signal_result' = try_from_revert_code(revert_code)
    /\ signal_pc' = "done"
    /\ UNCHANGED <<signal, revert_code>>
    /\ UNCHANGED <<selectorVars, abiVars, resolveVars, unifyVars, docVars>>

NextSignal == ToRevertCode \/ TryFromRevertCode

SpecSignal == InitSignal /\ [][NextSignal]_vars

---------------------------------------------------------------------------
(* ResolvedType::resolve call by call: every call of resolve is a frame on  *)
(* the stack, a frame is popped when its call returns                       *)

\* a call of resolve that has just been entered
Frame(type_application, parent_generic_params) ==
    [ type_application |-> type_application,
      parent_generic_params |-> parent_generic_params,
      at |-> "enter",
      pending |-> <<>>,
      collected |-> <<>>,
      generic_params_lookup |-> <<>> ]

\* the frames a thread's stack has room for
StackLimit == 10

\* the stack has overflowed: the process is aborted
Abort == [tag |-> "Abort", val |-> "stack overflow"]

\* the stack without its top frame
Pop(stack) == SubSeq(stack, 1, Len(stack) - 1)

\* the stack with its top frame replaced
ReplaceTop(stack, frame) == [stack EXCEPT ![Len(stack)] = frame]

\* collect that loses the item
collect_item_dropping(frame, item) == [frame EXCEPT !.pending = Tail(@)]

\* collect that binds the item to its application's type id in the context
\* the frame was called with
collect_item_binding(frame, item) ==
    [frame EXCEPT !.collected = Append(@, item),
                  !.pending = Tail(@),
                  !.parent_generic_params = Append(@, <<Head(frame.pending).type_id, item>>)]

\* collect::<Result<Vec<_>>>() taking the Ok item of the call that returned
collect_item(frame, item) == [frame EXCEPT !.collected = Append(@, item), !.pending = Tail(@)]

\* the context a pending application is resolved under: the caller's own for
\* a type argument, the one determined for the declaration for a component
context_of_pending(frame) ==
    IF frame.at = "type_arguments" THEN frame.parent_generic_params ELSE frame.generic_params_lookup

\* the lookups with the type ids applied to them when one argument is
\* resolved call by call
ResolveFixtures ==
    { Fixture(DeclsVectors, {1, 4, 6}),
      Fixture(DeclsPairs, {3, 6, 7}),
      Fixture(DeclsForwarding, {2, 5, 6}),
      Fixture(DeclsNested, {2, 3, 4}),
      Fixture(DeclsCyclic, {1, 2, 3}) }

InitResolve ==
    /\ SelectorIdle
    /\ AbiIdle
    /\ SignalIdle
    /\ UnifyIdle
    /\ DocIdle
    /\ \E f \in ResolveFixtures :
          /\ resolve_lookup = Lookup(f.decls)
          /\ \E n \in 1..MaxNodes : \E forest \in ForestsOf(f.applied, n) :
                /\ Len(forest) = 1
                /\ argument = forest[1]
    /\ frames = <<Frame(argument, <<>>)>>
    /\ returned = Running
    /\ calls = 1
    /\ outcome = Running

\* resolve from its entry to the first call it makes: the declaration is
\* looked up, a generic placeholder is answered from the context, otherwise
\* the type arguments (with type parameters declared) or the components are
\* to be resolved
ResolveEnter ==
    /\ outcome = Running /\ returned = Running /\ frames # <<>>
    /\ LET frame == frames[Len(frames)]
           id == frame.type_application.type_id
           type_declaration == resolve_lookup[id]
           found == find(frame.parent_generic_params, id)
       IN  /\ frame.at = "enter"
           /\ IF id \notin DOMAIN resolve_lookup
              THEN /\ returned' = Err("FnSelectorResolving")
                   /\ frames' = Pop(frames)
              ELSE IF extract_generic_name(type_declaration.type_field) # None
              THEN /\ returned' = (IF found = None THEN Err("FnSelectorResolving") ELSE Ok(found[1][2]))
                   /\ frames' = Pop(frames)
              ELSE IF flatten(type_declaration.type_parameters) # <<>>
              THEN /\ frames' = ReplaceTop(frames, [frame EXCEPT !.at = "type_arguments",
                                                                  !.pending = flatten(frame.type_application.type_arguments)])
                   /\ UNCHANGED returned
              ELSE /\ frames' = ReplaceTop(frames, [frame EXCEPT !.at = "components",
                                                                  !.generic_params_lookup = frame.parent_generic_params,
                                                                  !.pending = flatten(type_declaration.components)])
                   /\ UNCHANGED returned
    /\ UNCHANGED <<resolve_lookup, argument, calls, outcome>>
    /\ UNCHANGED <<selectorVars, abiVars, signalVars, unifyVars, docVars>>

\* the recursive call of resolve on the next type argument or component
ResolveCall ==
    /\ outcome = Running /\ returned = Running /\ frames # <<>>
    /\ Len(frames) < StackLimit
    /\ LET frame == frames[Len(frames)]
       IN  /\ frame.at \in {"type_arguments", "components"}
           /\ frame.pending # <<>>
           /\ frames' = Append(frames, Frame(Head(frame.pending), context_of_pending(frame)))
    /\ calls' = calls + 1
    /\ UNCHANGED <<resolve_lookup, argument, returned, outcome>>
    /\ UNCHANGED <<selectorVars, abiVars, signalVars, unifyVars, docVars>>

\* the recursive call for which the stack has no room
ResolveOverflow ==
    /\ outcome = Running /\ returned = Running /\ frames # <<>>
    /\ Len(frames) = StackLimit
    /\ LET frame == frames[Len(frames)]
       IN  /\ frame.at \in {"type_arguments", "components"}
           /\ frame.pending # <<>>
    /\ outcome' = Abort
    /\ UNCHANGED <<resolve_lookup, argument, frames, returned, calls>>
    /\ UNCHANGED <<selectorVars, abiVars, signalVars, unifyVars, docVars>>

\* the caller gets what its call returned: collect takes an Ok item, and `?`
\* returns an Err from the caller as well
ResolveCollect ==
    /\ outcome = Running /\ returned # Running /\ frames # <<>>
    /\ IF IsOk(returned)
       THEN /\ frames' = ReplaceTop(frames, collect_item(frames[Len(frames)], returned.val))
            /\ returned' = Running
       ELSE /\ frames' = Pop(frames)
            /\ UNCHANGED returned
    /\ UNCHANGED <<resolve_lookup, argument, calls, outcome>>
    /\ UNCHANGED <<selectorVars, abiVars, signalVars, unifyVars, docVars>>

\* determine_generics_for_type after its type arguments are resolved: the
\* type parameters are zipped with them, or with the parent's values
ResolveBind ==
    /\ outcome = Running /\ returned = Running /\ frames # <<>>
    /\ LET frame == frames[Len(frames)]
           type_declaration == resolve_lookup[frame.type_application.type_id]
           generics_to_use ==
               IF frame.collected # <<>>
               THEN frame.collected
               ELSE [i \in 1..Len(frame.parent_generic_params) |-> frame.parent_generic_params[i][2]]
       IN  /\ frame.at = "type_arguments"
           /\ frame.pending = <<>>
           /\ frames' = ReplaceTop(frames, [frame EXCEPT !.at = "components",
                                                         !.generic_params_lookup = zip(flatten(type_declaration.type_parameters), generics_to_use),
                                                         !.pending = flatten(type_declaration.components),
                                                         !.collected = <<>>])
    /\ UNCHANGED <<resolve_lookup, argument, returned, calls, outcome>>
    /\ UNCHANGED <<selectorVars, abiVars, signalVars, unifyVars, docVars>>

\* resolve returns the ResolvedType built from its declaration
ResolveReturn ==
    /\ outcome = Running /\ returned = Running /\ frames # <<>>
    /\ LET frame == frames[Len(frames)]
           type_declaration == resolve_lookup[frame.type_application.type_id]
       IN  /\ frame.at = "components"
           /\ frame.pending = <<>>
           /\ returned' = Ok(ResolvedType(type_declaration.type_field,
                                          [i \in 1..Len(frame.generic_params_lookup) |-> frame.generic_params_lookup[i][2]],
                                          frame.collected))
           /\ frames' = Pop(frames)
    /\ UNCHANGED <<resolve_lookup, argument, calls, outcome>>
    /\ UNCHANGED <<selectorVars, abiVars, signalVars, unifyVars, docVars>>

\* try_from returns what its call of resolve returned
TryFromReturn ==
    /\ outcome = Running /\ returned # Running /\ frames = <<>>
    /\ outcome' = returned
    /\ UNCHANGED <<resolve_lookup, argument, frames, returned, calls>>
    /\ UNCHANGED <<selectorVars, abiVars, signalVars, unifyVars, docVars>>

NextResolve ==
    \/ ResolveEnter
    \/ ResolveCall
    \/ ResolveOverflow
    \/ ResolveCollect
    \/ ResolveBind
    \/ ResolveReturn
    \/ TryFromReturn

\* a call in progress goes on: the thread is not stopped from outside
SpecResolve == InitResolve /\ [][NextResolve]_vars /\ WF_vars(NextResolve)

\* calls of resolve_fn_selector, one after another on the same inputs, and
\* calls of try_from followed call by call
InitCalls == Init \/ InitResolve

NextCalls == NextTwice \/ NextResolve

SpecCalls == InitCalls /\ [][NextCalls]_vars

---------------------------------------------------------------------------
(* UnifiedProgramABI::from_counterpart statement by statement; a usize is  *)
(* written as its four 16-bit limbs (a 64-bit target), the most            *)
(* significant first                                                       *)

\* usize::MAX
USIZE_MAX == <<65535, 65535, 65535, 65535>>

\* the usize of a number below 2^16
usize(n) == <<0, 0, 0, n>>

\* a < b, for two usize
usize_lt(a, b) ==
    \E i \in 1..4 : a[i] < b[i] /\ \A j \in 1..(i - 1) : a[j] = b[j]

\* a + 1 modulo 2^64
wrapping_add_one(a) ==
    IF a[4] < 65535 THEN <<a[1], a[2], a[3], a[4] + 1>>
    ELSE IF a[3] < 65535 THEN <<a[1], a[2], a[3] + 1, 0>>
    ELSE IF a[2] < 65535 THEN <<a[1], a[2] + 1, 0, 0>>
    ELSE IF a[1] < 65535 THEN <<a[1] + 1, 0, 0, 0>>
    ELSE <<0, 0, 0, 0>>

\* a + 1 as the build computes it: a sum that does not fit panics in a build
\* with overflow checks (the dev profile) and wraps in one without (the
\* release profile)
add_one(a, checks) ==
    IF a = USIZE_MAX /\ checks THEN Panic("attempt to add with overflow")
    ELSE Ok(wrapping_add_one(a))

\* .iter().map(|ttype| ttype.metadata_type_id.0).max().unwrap_or(0)
max_metadata_type_id(metadata) ==
    IF metadata = <<>> THEN usize(0)
    ELSE LET ids == {metadata[i].metadata_type_id : i \in DOMAIN metadata}
         IN  CHOOSE m \in ids : \A id \in ids : ~usize_lt(m, id)

\* program.rs's TypeApplication, of a TypeId::Concrete or a TypeId::Metadata
program_TypeApplication(n, tid, msg, targs) ==
    [name |-> n, type_id |-> tid, error_message |-> msg, type_arguments |-> targs]

UnifiedTypeApplication_from_counterpart(type_application, concrete_types_lookup) ==
    IF DOMAIN type_application.type_id = {"concrete"}
    THEN LET concrete_type_decl == get_unwrap(concrete_types_lookup, type_application.type_id.concrete)
             ids == flatten(concrete_type_decl.val.type_arguments)
             type_arguments == collect([i \in DOMAIN ids |->
                                   UnifiedTypeApplication_from_concrete_type_id("", ids[i], concrete_types_lookup)])
         IN  IF ~IsOk(concrete_type_decl) THEN concrete_type_decl
             ELSE IF concrete_type_decl.val.metadata_type_id = None
             THEN Panic("called Option::unwrap() on a None value")
             ELSE IF ~IsOk(type_arguments) THEN type_arguments
             ELSE Ok(UnifiedTypeApplication(type_application.name, concrete_type_decl.val.metadata_type_id[1],
                                            type_application.error_message, none_if_empty(type_arguments.val)))
    ELSE LET applications == flatten(type_application.type_arguments)
             type_arguments == collect([i \in DOMAIN applications |->
                                   UnifiedTypeApplication_from_counterpart(applications[i], concrete_types_lookup)])
         IN  IF ~IsOk(type_arguments) THEN type_arguments
             ELSE Ok(UnifiedTypeApplication(type_application.name, type_application.type_id.metadata,
                                            type_application.error_message, none_if_empty(type_arguments.val)))

UnifiedTypeDeclaration_from_counterpart(type_decl, concrete_types_lookup) ==
    LET applications == flatten(type_decl.components)
        components == collect([i \in DOMAIN applications |->
                          UnifiedTypeApplication_from_counterpart(applications[i], concrete_types_lookup)])
        type_parameters == flatten(type_decl.type_parameters)
    IN  IF ~IsOk(components) THEN components
        ELSE Ok(TypeDeclaration(type_decl.metadata_type_id, type_decl.type_field,
                                none_if_empty(components.val), none_if_empty(type_parameters)))

\* a ProgramABI without functions, logged types, message types,
\* configurables and error codes
ProgramABI(metadata, concrete) ==
    [program_type |-> "contract", spec_version |-> "1", encoding_version |-> "1",
     metadata_types |-> metadata, concrete_types |-> concrete, functions |-> <<>>,
     logged_types |-> None, messages_types |-> None, configurables |-> None, error_codes |-> None]

\* the largest number of concrete types, and of metadata types, of a program
MaxConcrete == 3

MaxMetadata == 2

\* the metadata type ids of the programs: small ones and the largest two
MetadataTypeIds == {usize(0), usize(1), <<65535, 65535, 65535, 65534>>, USIZE_MAX}

\* the lists of n metadata types: the first with or without a component of
\* the first concrete type
MetadataTypesOf(n) ==
    LET type_fields == <<"struct S", "enum E", "struct T", "enum F">>
    IN  { [i \in 1..n |->
              TypeMetadataDeclaration(type_fields[i], ids[i],
                  IF i = 1 /\ component
                  THEN Some(<<program_TypeApplication("f", Concrete("c1"), None, None)>>)
                  ELSE None,
                  None)] :
            ids \in [1..n -> MetadataTypeIds], component \in BOOLEAN }

\* the lists of n concrete types, each without metadata type id or with the
\* id of one of the metadata types
ConcreteTypesOf(n, metadata) ==
    LET type_fields == <<"u8", "u64", "bool", "b256", "()">>
        concrete_type_ids == <<"c1", "c2", "c3", "c4", "c5">>
    IN  { [j \in 1..n |-> TypeConcreteDeclaration(type_fields[j], concrete_type_ids[j], mids[j], None)] :
            mids \in [1..n -> {None} \cup {Some(metadata[i].metadata_type_id) : i \in DOMAIN metadata}] }

InitUnify ==
    /\ SelectorIdle
    /\ AbiIdle
    /\ SignalIdle
    /\ ResolveIdle
    /\ DocIdle
    /\ \E m \in 0..MaxMetadata : \E metadata \in MetadataTypesOf(m) :
          \E n \in 0..MaxConcrete : \E concrete \in ConcreteTypesOf(n, metadata) :
             program_abi = ProgramABI(metadata, concrete)
    /\ overflow_checks \in BOOLEAN
    /\ extended_concrete_types = <<>>
    /\ extended_metadata_types = <<>>
    /\ next_metadata_type_id = <<>>
    /\ position = 0
    /\ unify_pc = "start"
    /\ unified = Running

\* the clones of the two lists, and max + 1
UnifyClone ==
    /\ unify_pc = "start"
    /\ extended_concrete_types' = program_abi.concrete_types
    /\ extended_metadata_types' = program_abi.metadata_types
    /\ LET next == add_one(max_metadata_type_id(program_abi.metadata_types), overflow_checks)
       IN  IF IsOk(next)
           THEN /\ next_metadata_type_id' = next.val
                /\ position' = 1
                /\ unify_pc' = "loop"
                /\ UNCHANGED unified
           ELSE /\ unified' = next
                /\ unify_pc' = "done"
                /\ UNCHANGED <<next_metadata_type_id, position>>
    /\ UNCHANGED <<program_abi, overflow_checks>>
    /\ UNCHANGED <<selectorVars, abiVars, signalVars, resolveVars, docVars>>

\* one pass of the loop over the concrete types
UnifyExtend ==
    /\ unify_pc = "loop"
    /\ position <= Len(extended_concrete_types)
    /\ LET concrete_type_decl == extended_concrete_types[position]
           next == add_one(next_metadata_type_id, overflow_checks)
       IN  IF concrete_type_decl.metadata_type_id = None
           THEN /\ extended_metadata_types' =
                      Append(extended_metadata_types,
                             TypeMetadataDeclaration(concrete_type_decl.type_field, next_metadata_type_id, None, None))
                /\ extended_concrete_types' =
                      [extended_concrete_types EXCEPT ![position].metadata_type_id = Some(next_metadata_type_id)]
                /\ IF IsOk(next)
                   THEN /\ next_metadata_type_id' = next.val
                        /\ position' = position + 1
                        /\ UNCHANGED <<unify_pc, unified>>
                   ELSE /\ unified' = next
                        /\ unify_pc' = "done"
                        /\ UNCHANGED <<next_metadata_type_id, position>>
           ELSE /\ position' = position + 1
                /\ UNCHANGED <<extended_concrete_types, extended_metadata_types, next_metadata_type_id,
                               unify_pc, unified>>
    /\ UNCHANGED <<program_abi, overflow_checks>>
    /\ UNCHANGED <<selectorVars, abiVars, signalVars, resolveVars, docVars>>

\* the lookup of the concrete types, the types, and the program returned
UnifyCollect ==
    /\ unify_pc = "loop"
    /\ position > Len(extended_concrete_types)
    /\ LET concrete_types_lookup == concrete_types_lookup_of(extended_concrete_types)
           unified_types == collect([i \in DOMAIN extended_metadata_types |->
                                UnifiedTypeDeclaration_from_counterpart(extended_metadata_types[i], concrete_types_lookup)])
       IN  unified' =
              IF ~IsOk(unified_types) THEN unified_types
              ELSE Ok([program_type |-> program_abi.program_type,
                       spec_version |-> program_abi.spec_version,
                       encoding_version |-> program_abi.encoding_version,
                       types |-> unified_types.val,
                       functions |-> <<>>,
                       logged_types |-> None,
                       messages_types |-> None,
                       configurables |-> None,
                       error_codes |-> program_abi.error_codes])
    /\ unify_pc' = "done"
    /\ UNCHANGED <<program_abi, overflow_checks, extended_concrete_types, extended_metadata_types,
                   next_metadata_type_id, position>>
    /\ UNCHANGED <<selectorVars, abiVars, signalVars, resolveVars, docVars>>

NextUnify == UnifyClone \/ UnifyExtend \/ UnifyCollect

SpecUnify == InitUnify /\ [][NextUnify]_vars

---------------------------------------------------------------------------
(* FullABIFunction::doc_strings (src/src/abi/full_program.rs)              *)

is_doc_comment(attr) == attr.name = "doc-comment"

\* the closure of doc_strings's map: then_some takes its argument
\* evaluated, so attr.arguments[0] is indexed whatever the length is, and
\* indexing an empty Vec panics; the message's backquotes are written as
\* apostrophes
doc_string_of(attr) ==
    IF Len(attr.arguments) = 0 THEN Panic("index out of bounds: the len is 0 but the index is 0")
    ELSE IF Len(attr.arguments) = 1 THEN Ok(attr.arguments[1])
    ELSE error("'doc-comment' attribute must have one argument")

\* collect::<Result<Vec<String>>>() takes the items in order and stops at the
\* first Err
doc_strings(self) ==
    LET doc_comments == SelectSeq(self.attributes, is_doc_comment)
    IN  collect([i \in DOMAIN doc_comments |-> doc_string_of(doc_comments[i])])

\* the largest number of attributes of a function
MaxAttributes == 3

\* the attributes of the functions: the two the crate reads, with every
\* number of arguments up to three, and one it does not
DocAttributes ==
    { Attribute("doc-comment", <<>>),
      Attribute("doc-comment", <<" A doc">>),
      Attribute("doc-comment", <<" Other doc">>),
      Attribute("doc-comment", <<" A doc", " too many">>),
      Attribute("doc-comment", <<" A doc", " too", " many">>),
      Attribute("payable", <<>>),
      Attribute("storage", <<"read">>) }

InitDocs ==
    /\ SelectorIdle
    /\ AbiIdle
    /\ SignalIdle
    /\ ResolveIdle
    /\ UnifyIdle
    /\ \E n \in 0..MaxAttributes : \E attributes \in [1..n -> DocAttributes] :
          documented_function =
              FullABIFunction_new("some_fn", <<>>,
                                  FullTypeApplication("", FullTypeDeclaration("()", <<>>, <<>>), <<>>),
                                  attributes).val
    /\ doc_pc = "start"
    /\ docs = Running

DocStrings ==
    /\ doc_pc = "start"
    /\ docs' = doc_strings(documented_function)
    /\ doc_pc' = "done"
    /\ UNCHANGED documented_function
    /\ UNCHANGED <<selectorVars, abiVars, signalVars, resolveVars, unifyVars>>

NextDocs == DocStrings

SpecDocs == InitDocs /\ [][NextDocs]_vars

---------------------------------------------------------------------------
(* What the properties are stated with *)

Returned == pc \in {"returned", "selected"}

\* every node of a Resolved Type: the root, its generic_params, its components, recursively
Nodes(t) ==
    {t} \cup UNION {Nodes(t.generic_params[i]) : i \in DOMAIN t.generic_params}
        \cup UNION {Nodes(t.components[i]) : i \in DOMAIN t.components}

ResolvedNodes == UNION {Nodes(resolved[i]) : i \in DOMAIN resolved}

Range(seq) == {seq[i] : i \in DOMAIN seq}

\* the calls of resolve that resolving `app` under `ctx` makes when none of
\* them fails, each as <<type application, context it is resolved under>>
Calls(app, lookup, ctx) ==
    {<<app, ctx>>} \cup
        IF app.type_id \notin DOMAIN lookup \/ extract_generic_name(lookup[app.type_id].type_field) # None
        THEN {}
        ELSE LET decl == lookup[app.type_id]
                 context == determine_generics_for_type(app, lookup, decl, ctx)
             IN  (IF flatten(decl.type_parameters) # <<>>
                  THEN UNION {Calls(ta, lookup, ctx) : ta \in Range(flatten(app.type_arguments))}
                  ELSE {})
                 \cup (IF IsOk(context)
                       THEN UNION {Calls(c, lookup, context.val) : c \in Range(flatten(decl.components))}
                       ELSE {})

\* the calls of resolve made for the arguments that collect has pulled
ReachedCalls ==
    UNION {Calls(arguments[i], type_lookup, <<>>) : i \in {j \in DOMAIN arguments : j <= Len(resolved) + 1 /\ (j <= Len(resolved) \/ Returned)}}

\* the strings of a list with "," between them, built from the right
CommaSeparated(strs) ==
    IF Len(strs) = 0 THEN ""
    ELSE IF Len(strs) = 1 THEN strs[1]
    ELSE CommaSeparated(SubSeq(strs, 1, Len(strs) - 1)) \o "," \o strs[Len(strs)]

\* the encodings of a list of Resolved Types
Encodings(ts) == [i \in DOMAIN ts |-> fnselectify(ts[i]).val]

AllEncode(ts) == \A i \in DOMAIN ts : IsOk(fnselectify(ts[i]))

\* a call of `fixture`'s lookup with these arguments
CallOf(decls, args) == type_lookup = Lookup(decls) /\ arguments = args

Arg(id, targs) == TypeApplication("arg", id, targs)

---------------------------------------------------------------------------
(* C1 .. C10 *)

\* C1: once resolve_fn_selector has hashed a signature S, its result is Ok of
\* the 4-byte array made of bytes 0..3 of the SHA-256 digest of S's UTF-8 bytes.
C1_SelectorIsDigestPrefix ==
    (pc = "selected" /\ IsOk(result)) =>
        /\ selector.tag = "Ok"
        /\ selector.val = SubSeq(Sha256(as_bytes(result.val)), 1, 4)

\* C2: a returned signature is name, "(", the encodings of the arguments in
\* argument order with "," between them, ")", and nothing else; it is name()
\* for no arguments; and the call returns Ok when every argument resolves and
\* has an encoding.
C2_SignatureAssembly ==
    Returned =>
        /\ IsOk(result) =>
              /\ Len(types) = Len(arguments)
              /\ \A i \in DOMAIN arguments :
                    /\ IsOk(try_from(arguments[i], type_lookup))
                    /\ types[i] = fnselectify(try_from(arguments[i], type_lookup).val).val
              /\ result.val = name \o "(" \o CommaSeparated(types) \o ")"
              /\ arguments = <<>> => result.val = name \o "()"
        /\ (\A i \in DOMAIN arguments :
                /\ IsOk(try_from(arguments[i], type_lookup))
                /\ IsOk(fnselectify(try_from(arguments[i], type_lookup).val)))
              => IsOk(result)

\* C2's case: a signature of two arguments whose encodings differ
C2_Witness ==
    /\ pc = "returned" /\ IsOk(result)
    /\ Len(arguments) = 2 /\ types[1] # types[2]


\* a type_field written as white space, "generic", white space, a name
\* without white space, white space
PlaceholderForm(type_field) ==
    \E i \in 1..Len(type_field), j \in 1..Len(type_field), k \in 1..Len(type_field) :
        /\ i + 7 < j /\ j <= k
        /\ AllChars(SubSeq(type_field, 1, i - 1), IsSpace)
        /\ SubSeq(type_field, i, i + 6) = "generic"
        /\ AllChars(SubSeq(type_field, i + 7, j - 1), IsSpace)
        /\ AllChars(SubSeq(type_field, j, k), LAMBDA c : ~IsSpace(c))
        /\ AllChars(SubSeq(type_field, k + 1, Len(type_field)), IsSpace)

\* C3: no node of a Resolved Type that try_from returned has a type_field of
\* the generic placeholder form.
C3_NoPlaceholderInResolved == \A t \in ResolvedNodes : ~PlaceholderForm(t.type_field)

\* C3's case: a resolved argument in which a type parameter was bound, under a
\* lookup that declares a placeholder
C3_Witness ==
    /\ \E i \in DOMAIN resolved : resolved[i].generic_params # <<>> /\ resolved[i].components # <<>>
    /\ \E id \in DOMAIN type_lookup : PlaceholderForm(type_lookup[id].type_field)

\* the application, a component of a declaration it reaches, or a type
\* argument that is resolved on the way, has a type id the lookup lacks
MentionsUndeclared(app, lookup) ==
    \/ app.type_id \notin DOMAIN lookup
    \/ /\ app.type_id \in DOMAIN lookup
       /\ ~PlaceholderForm(lookup[app.type_id].type_field)
       /\ \/ \E c \in Range(flatten(lookup[app.type_id].components)) : MentionsUndeclared(c, lookup)
          \/ /\ flatten(lookup[app.type_id].type_parameters) # <<>>
             /\ \E ta \in Range(flatten(app.type_arguments)) : MentionsUndeclared(ta, lookup)

\* C4: an argument with an undeclared type id, at the top level or in a
\* component it reaches, never yields a Resolved Type; when collect reaches it,
\* resolve_fn_signature returns Err (no panic, no signature) and
\* resolve_fn_selector returns Err.
C4_UndeclaredIdIsErr ==
    \A i \in DOMAIN arguments :
        MentionsUndeclared(arguments[i], type_lookup) =>
            /\ i > Len(resolved)
            /\ Returned => ~IsOk(result)
            /\ (Returned /\ i = Len(types) + 1 /\ Len(resolved) = Len(types)) => result.tag = "Err"
            /\ (pc = "selected" /\ i = Len(types) + 1 /\ Len(resolved) = Len(types)) => selector.tag = "Err"

\* C4's case: the selector call has returned for a second argument whose
\* declaration has a component of an undeclared type id
C4_Witness ==
    /\ pc = "selected" /\ selector.tag = "Err"
    /\ Len(types) = 1 /\ Len(arguments) >= 2
    /\ arguments[2].type_id \in DOMAIN type_lookup
    /\ MentionsUndeclared(arguments[2], type_lookup)

\* the bound type of the first pair of `ctx` whose id is `id`, if any
Bound(ctx, id) ==
    LET at == {i \in DOMAIN ctx : ctx[i][1] = id}
    IN  IF at = {} THEN <<>> ELSE <<ctx[CHOOSE i \in at : \A j \in at : i <= j][2]>>

\* C5: a call of resolve on an application whose declaration is a generic
\* placeholder returns Err when the context has no pair with that type id, and
\* otherwise Ok of the type bound to it, unchanged; a top-level argument that
\* is a placeholder makes the call return Err.
C5_PlaceholderIsContextLookup ==
    /\ \A call \in ReachedCalls :
          (call[1].type_id \in DOMAIN type_lookup /\ PlaceholderForm(type_lookup[call[1].type_id].type_field)) =>
              LET r == resolve(call[1], type_lookup, call[2])
                  bound == Bound(call[2], call[1].type_id)
              IN  IF bound = <<>> THEN r.tag = "Err" ELSE r.tag = "Ok" /\ r.val = bound[1]
    /\ \A i \in DOMAIN arguments :
          (/\ Returned /\ i = Len(resolved) + 1 /\ Len(resolved) = Len(types)
           /\ arguments[i].type_id \in DOMAIN type_lookup
           /\ PlaceholderForm(type_lookup[arguments[i].type_id].type_field)) => result.tag = "Err"

\* C5's case: a resolved argument whose second type parameter is a
\* placeholder that has a component, bound to a type other than the first's
C5_Witness ==
    \E i \in DOMAIN resolved :
        /\ Len(resolved[i].generic_params) = 2
        /\ Len(resolved[i].components) = 2
        /\ resolved[i].generic_params[1] # resolved[i].generic_params[2]
        /\ flatten(type_lookup[flatten(type_lookup[arguments[i].type_id].type_parameters)[2]].components) # <<>>


IsCustom(t) == starts_with(t.type_field, "struct ") \/ starts_with(t.type_field, "enum ")

Letter(t) == IF starts_with(t.type_field, "struct ") THEN "s" ELSE "e"

\* the encoding of a struct or enum node with the generics segment `segment`
CustomEncoding(t, segment) ==
    Ok(Letter(t) \o segment \o "(" \o CommaSeparated(Encodings(t.components)) \o ")")

Bracketed(t) == "<" \o CommaSeparated(Encodings(t.generic_params)) \o ">"

\* C6 as claimed: a struct or enum node encodes as its letter, then the
\* bracketed encodings of its generic_params if and only if generic_params is
\* non-empty, then the parenthesized encodings of its components.
C6_SegmentIffGenericParams ==
    \A t \in ResolvedNodes :
        (IsCustom(t) /\ AllEncode(t.components) /\ AllEncode(t.generic_params)) =>
            fnselectify(t) = CustomEncoding(t, IF t.generic_params # <<>> THEN Bracketed(t) ELSE "")

\* C6 as amended: the generics segment is written if and only if the joined
\* encodings of generic_params are a non-empty string, that is unless
\* generic_params is empty or is a single type whose encoding is empty; the
\* rest as claimed (declared order, no name in the output).
C6_SegmentIffGenericsText ==
    \A t \in ResolvedNodes :
        (IsCustom(t) /\ AllEncode(t.components) /\ AllEncode(t.generic_params)) =>
            fnselectify(t) = CustomEncoding(t,
                IF t.generic_params = <<>> \/ (Len(t.generic_params) = 1 /\ fnselectify(t.generic_params[1]).val = "")
                THEN "" ELSE Bracketed(t))

\* C6's case: an encoded struct argument with two different generic
\* parameters and two different components
C6_Witness ==
    \E i \in DOMAIN types :
        /\ starts_with(resolved[i].type_field, "struct ")
        /\ Len(resolved[i].generic_params) = 2 /\ Len(resolved[i].components) = 2
        /\ resolved[i].components[1] # resolved[i].components[2]
        /\ starts_with(types[i], "s<")

\* a type_field written "[_; " digits "]"
ArrayForm(type_field) ==
    /\ starts_with(type_field, "[_; ") /\ ends_with(type_field, "]")
    /\ Len(type_field) > 5
    /\ AllChars(SubSeq(type_field, 5, Len(type_field) - 1), IsDigit)

\* a number's digits without its leading zeros
StripZeros(digits) == IF Len(digits) > 1 /\ CharAt(digits, 1) = "0" THEN StripZeros(SubSeq(digits, 2, Len(digits))) ELSE digits

\* C7: an array node "[_; N]" with a first component encodes as "a[", that
\* component's encoding, ";", N in decimal, "]"; some_fun over an array of
\* 10 u8 gives some_fun(a[u8;10]).
C7_ArrayEncoding ==
    /\ \A t \in ResolvedNodes :
          (ArrayForm(t.type_field) /\ t.components # <<>> /\ IsOk(fnselectify(t.components[1]))) =>
              fnselectify(t) = Ok("a[" \o fnselectify(t.components[1]).val \o ";"
                                   \o StripZeros(SubSeq(t.type_field, 5, Len(t.type_field) - 1)) \o "]")
    /\ (CallOf(DeclsArrays, <<Arg(0, None)>>) /\ Returned) =>
          IsOk(result) /\ (name = "some_fun" => result.val = "some_fun(a[u8;10])")

\* C7's case: the signature of some_fun over the array of 10 u8 has been returned
C7_Witness ==
    /\ CallOf(DeclsArrays, <<Arg(0, None)>>) /\ pc = "returned" /\ name = "some_fun"
    /\ types = <<"a[u8;10]">>

Shaped(t) ==
    \/ IsCustom(t)
    \/ starts_with(t.type_field, "(") /\ ends_with(t.type_field, ")")
    \/ starts_with(t.type_field, "[") /\ ends_with(t.type_field, "]")

\* C8: a node whose type_field is exactly "raw untyped ptr" encodes as
\* rawptr, exactly "raw untyped slice" as rawslice, and any node that is not
\* struct-, enum-, tuple- or array-shaped as its type_field verbatim, whatever
\* its generic_params and components; some_fn over u8 gives some_fn(u8).
C8_TokensAndVerbatim ==
    /\ \A t \in ResolvedNodes :
          /\ t.type_field = "raw untyped ptr" => fnselectify(t) = Ok("rawptr")
          /\ t.type_field = "raw untyped slice" => fnselectify(t) = Ok("rawslice")
          /\ (~Shaped(t) /\ t.type_field \notin {"raw untyped ptr", "raw untyped slice"}) =>
                fnselectify(t) = Ok(t.type_field)
    /\ (CallOf(DeclsSimple("u8"), <<Arg(0, None)>>) /\ Returned) =>
          IsOk(result) /\ (name = "some_fn" => result.val = "some_fn(u8)")

\* C8's case: a returned signature with an argument that is a primitive
\* carrying a component
C8_Witness ==
    /\ pc = "returned" /\ IsOk(result)
    /\ \E i \in DOMAIN resolved :
          /\ ~Shaped(resolved[i]) /\ resolved[i].components # <<>>
          /\ types[i] = resolved[i].type_field

\* the first n elements of a list, all of it when it is shorter
Take(seq, n) == SubSeq(seq, 1, IF n < Len(seq) THEN n ELSE Len(seq))

\* a call on a declaration that declares type parameters, with type arguments
Instantiates(call) ==
    /\ call[1].type_id \in DOMAIN type_lookup
    /\ ~PlaceholderForm(type_lookup[call[1].type_id].type_field)
    /\ flatten(type_lookup[call[1].type_id].type_parameters) # <<>>
    /\ flatten(call[1].type_arguments) # <<>>

\* C9: where a declaration with type parameters p1..pn (distinct
\* placeholders) is applied to type arguments a1..am, m >= 1, and resolves:
\* each component whose type id is p_i, i <= min(n, m), is the Resolved Type
\* of a_i, and generic_params are the resolved a_1..a_min(n,m) in order; the
\* generic struct (enum) over u8 gives some_fn(s<u8>(u8)) (some_fn(e<u8>(u8))).
C9_TypeArgumentsBindParameters ==
    /\ \A call \in ReachedCalls :
          LET decl == type_lookup[call[1].type_id]
              params == flatten(decl.type_parameters)
              targs == flatten(call[1].type_arguments)
              comps == flatten(decl.components)
              r == resolve(call[1], type_lookup, call[2])
          IN  (Instantiates(call) /\ IsOk(r)) =>
                  /\ Len(r.val.generic_params) = Len(Take(params, Len(targs)))
                  /\ \A i \in DOMAIN r.val.generic_params :
                        r.val.generic_params[i] = resolve(targs[i], type_lookup, call[2]).val
                  /\ \A k \in DOMAIN comps, i \in DOMAIN params :
                        (i <= Len(targs) /\ comps[k].type_id = params[i]) =>
                            r.val.components[k] = resolve(targs[i], type_lookup, call[2]).val
    /\ (CallOf(DeclsGenericStructs, <<Arg(2, Some(<<Arg(3, None)>>))>>) /\ Returned) =>
          IsOk(result) /\ (name = "some_fn" => result.val = "some_fn(s<u8>(u8))")
    /\ (CallOf(DeclsGenericEnums, <<Arg(2, Some(<<Arg(3, None)>>))>>) /\ Returned) =>
          IsOk(result) /\ (name = "some_fn" => result.val = "some_fn(e<u8>(u8))")

\* C9's case: the signature of some_fn over the generic struct instantiated
\* with u8 has been returned
C9_Witness ==
    /\ CallOf(DeclsGenericStructs, <<Arg(2, Some(<<Arg(3, None)>>))>>)
    /\ pc = "returned" /\ name = "some_fn"
    /\ types = <<"s<u8>(u8)">>

\* C10: the type arguments of an application met inside a declaration are
\* resolved under the context of that enclosing declaration: the bound
\* generics of the instantiated type are the type arguments resolved under
\* the caller's context; some_fun over Vec<u8> gives
\* some_fun(s<u8>(s<u8>(rawptr,u64),u64)).
C10_ArgumentsUnderParentContext ==
    /\ \A call \in ReachedCalls :
          LET targs == flatten(call[1].type_arguments)
              r == resolve(call[1], type_lookup, call[2])
          IN  (Instantiates(call) /\ call[2] # <<>> /\ IsOk(resolve_each(targs, type_lookup, call[2]))) =>
                  /\ IsOk(r) => \A i \in DOMAIN r.val.generic_params :
                                    r.val.generic_params[i] = resolve(targs[i], type_lookup, call[2]).val
                  /\ \A i \in DOMAIN targs :
                        (targs[i].type_id \in DOMAIN type_lookup /\ PlaceholderForm(type_lookup[targs[i].type_id].type_field)) =>
                            <<resolve(targs[i], type_lookup, call[2]).val>> = Bound(call[2], targs[i].type_id)
    /\ (CallOf(DeclsVectors, <<Arg(4, Some(<<Arg(6, None)>>))>>) /\ Returned) =>
          IsOk(result) /\ (name = "some_fun" => result.val = "some_fun(s<u8>(s<u8>(rawptr,u64),u64))")

\* C10's case: the signature of some_fun over Vec<u8> has been returned
C10_Witness ==
    /\ CallOf(DeclsVectors, <<Arg(4, Some(<<Arg(6, None)>>))>>)
    /\ pc = "returned" /\ name = "some_fun"
    /\ resolved[1].components[1].generic_params = <<ResolvedType("u8", <<>>, <<>>)>>

---------------------------------------------------------------------------
(* C11 .. C20 *)

\* a call on a declaration that is no placeholder and declares no type parameter
Forwards(call) ==
    /\ call[1].type_id \in DOMAIN type_lookup
    /\ ~PlaceholderForm(type_lookup[call[1].type_id].type_field)
    /\ flatten(type_lookup[call[1].type_id].type_parameters) = <<>>

\* C11: a declaration without type parameters resolves each of its components
\* under the context it was itself resolved under, pairs and order unchanged;
\* so the u8 bound by Outer<u8> reaches the placeholder that lies below an
\* enum, an array and a tuple that declare no parameters.
C11_ContextForwardedUnchanged ==
    /\ \A call \in ReachedCalls :
          LET comps == flatten(type_lookup[call[1].type_id].components)
              r == resolve(call[1], type_lookup, call[2])
          IN  Forwards(call) =>
                  /\ \A k \in DOMAIN comps : <<comps[k], call[2]>> \in ReachedCalls
                  /\ IsOk(r) =>
                        /\ Len(r.val.components) = Len(comps)
                        /\ \A k \in DOMAIN comps :
                              r.val.components[k] = resolve(comps[k], type_lookup, call[2]).val
    /\ (CallOf(DeclsForwarding, <<Arg(5, Some(<<Arg(2, None)>>))>>) /\ Returned) =>
          /\ IsOk(result)
          /\ resolved[1].components[1].components[1].components[1].components[1] = resolved[1].generic_params[1]
          /\ resolved[1].generic_params[1] = ResolvedType("u8", <<>>, <<>>)

\* C11's case: Outer<u8> has been resolved, its placeholder four levels down
C11_Witness ==
    /\ CallOf(DeclsForwarding, <<Arg(5, Some(<<Arg(2, None)>>))>>)
    /\ Len(resolved) = 1
    /\ resolved[1].components[1].components[1].components[1].type_field = "(_, _)"
    /\ resolved[1].components[1].components[1].components[1].components[1].type_field = "u8"

ArrayShaped(t) == starts_with(t.type_field, "[") /\ ends_with(t.type_field, "]")

\* C12: when the call stops at an argument that resolves to an array-shaped
\* type whose type_field does not match the length pattern, what it returns
\* to the caller is an Err (a typed error), not a panic.
C12_MalformedLengthIsTypedError ==
    \A i \in DOMAIN arguments :
        LET t == try_from(arguments[i], type_lookup)
        IN  (/\ Returned /\ i = Len(types) + 1
             /\ IsOk(t) /\ ArrayShaped(t.val)
             /\ extract_array_len(t.val.type_field) = None) => result.tag = "Err"

\* C13: fnselectify returns (a string or a typed error) and does not panic
\* on any Resolved Type that try_from returned, nor on any node of one.
C13_EncoderTotal == \A t \in ResolvedNodes : fnselectify(t).tag \in {"Ok", "Err"}

\* C14: when the resolution of some argument (of the argument itself, of a
\* component it reaches or of a type argument) fails, the returned call of
\* resolve_fn_signature is an Err, so is that of resolve_fn_selector, and the
\* failing argument has no Resolved Type.
C14_ResolutionFailurePropagates ==
    \A i \in DOMAIN arguments :
        ~IsOk(try_from(arguments[i], type_lookup)) =>
            /\ i > Len(resolved)
            /\ Returned => result.tag = "Err"
            /\ pc = "selected" => selector.tag = "Err"

EmptyNameMessage == IF target = "Full" THEN "FullABIFunction's name cannot be empty!" ELSE "UnifiedABIFunction's name cannot be empty!"

\* C16: a call of FullABIFunction::new or UnifiedABIFunction::new returns an
\* error if and only if the name it is given is the empty string, the error's
\* message being the type's "...'s name cannot be empty!"; for any other name
\* it returns a function with the given name, inputs, output and attributes.
C16_NewRejectsExactlyEmptyName ==
    (abi_pc = "done" /\ new_args # None) =>
        LET given == new_args[1]
        IN  /\ function.tag \in {"Ok", "Err"}
            /\ function.tag = "Err" <=> given.name = ""
            /\ given.name = "" => function.val = EmptyNameMessage
            /\ given.name # "" =>
                  /\ function.val.name = given.name
                  /\ function.val.inputs = given.inputs
                  /\ function.val.output = given.output
                  /\ function.val.attributes = IF target = "Full" THEN given.attributes ELSE Some(given.attributes)

\* C16's case: FullABIFunction::new was called with an empty name, one input
\* and an attribute
C16_Witness ==
    /\ abi_pc = "done" /\ target = "Full" /\ new_args # None
    /\ new_args[1].name = "" /\ Len(new_args[1].inputs) = 1 /\ new_args[1].attributes # <<>>
    /\ function.tag = "Err"

\* C17: for an ABI function whose name is empty, from_counterpart converts
\* no input and no output (looks no type up) and ends with the empty-name
\* error; and resolve_fn_signature called with the name "" returns an error.
C17_EmptyNameRejectedFirst ==
    /\ abi_function # <<>> /\ abi_function.name = "" =>
          /\ inputs = <<>> /\ fn_output = None
          /\ (abi_pc = "done" /\ (new_args = None \/ new_args[1].name = "")) => function.tag = "Err"
    /\ (Returned /\ name = "") => result.tag = "Err"

SignalCodes ==
    { FAILED_REQUIRE_SIGNAL, FAILED_TRANSFER_TO_ADDRESS_SIGNAL, FAILED_SEND_MESSAGE_SIGNAL, FAILED_ASSERT_EQ_SIGNAL,
      FAILED_ASSERT_SIGNAL, FAILED_ASSERT_NE_SIGNAL, REVERT_WITH_LOG_SIGNAL }

\* C18: try_from_revert_code of a signal's to_revert_code is Ok of that
\* signal; the seven revert-code constants are pairwise distinct; and for a
\* code that is none of them try_from_revert_code is Err(UnknownRevertCode)
\* carrying that code.
C18_SignalRoundTrip ==
    /\ Cardinality(SignalCodes) = Cardinality(ErrorSignal)
    /\ (signal_pc = "done" /\ signal \in ErrorSignal) => signal_result = Ok(signal)
    /\ (signal_pc = "done" /\ revert_code \notin SignalCodes) =>
          /\ signal_result.tag = "Err"
          /\ signal_result.val.UnknownRevertCode = revert_code

\* C18's case: the code of assert went through try_from_revert_code
C18_Witness ==
    /\ signal_pc = "done" /\ signal = "Assert"
    /\ revert_code = FAILED_ASSERT_SIGNAL /\ signal_result.tag = "Ok"

\* the types bound in a context, in its order
Values(ctx) == [i \in DOMAIN ctx |-> ctx[i][2]]

\* a call on a declared type that is no placeholder
Declared(call) ==
    /\ call[1].type_id \in DOMAIN type_lookup
    /\ ~PlaceholderForm(type_lookup[call[1].type_id].type_field)

\* C19: a type resolved from a declaration that is no placeholder has the
\* declaration's type_field, as components the declaration's components
\* resolved in declared order under the context determined for them, and as
\* generic_params the values of that context in order; for a declaration
\* without type parameters these are the values of the parent's context,
\* none for a top-level argument.
C19_ResolvedTypeFields ==
    \A call \in ReachedCalls :
        LET decl == type_lookup[call[1].type_id]
            comps == flatten(decl.components)
            used == determine_generics_for_type(call[1], type_lookup, decl, call[2])
            r == resolve(call[1], type_lookup, call[2])
        IN  (Declared(call) /\ IsOk(r)) =>
                /\ r.val.type_field = decl.type_field
                /\ Len(r.val.components) = Len(comps)
                /\ \A k \in DOMAIN comps : r.val.components[k] = resolve(comps[k], type_lookup, used.val).val
                /\ r.val.generic_params = Values(used.val)
                /\ flatten(decl.type_parameters) = <<>> => r.val.generic_params = Values(call[2])
                /\ (flatten(decl.type_parameters) = <<>> /\ call[2] = <<>>) => r.val.generic_params = <<>>

\* C19's case: in the resolved Outer<u8>, the enum that declares no type
\* parameter carries the u8 of its parent's context
C19_Witness ==
    /\ Len(resolved) = 1
    /\ resolved[1].type_field = "struct Outer"
    /\ resolved[1].components[1].type_field = "enum Mid"
    /\ resolved[1].components[1].generic_params = <<ResolvedType("u8", <<>>, <<>>)>>
    /\ flatten(type_lookup[7].type_parameters) = <<>>

\* C20: where a declaration with type parameters p1..pn (distinct) is applied
\* without type arguments (None or an empty list) and resolves, p_i is bound
\* to the i-th value of the parent's context: generic_params are the parent's
\* values in the parent's order (as many as there are parameters), and a
\* component that is p_i is the i-th value.
C20_FallbackToParentValues ==
    /\ \A call \in ReachedCalls :
          LET decl == type_lookup[call[1].type_id]
              params == flatten(decl.type_parameters)
              comps == flatten(decl.components)
              r == resolve(call[1], type_lookup, call[2])
          IN  (Declared(call) /\ params # <<>> /\ flatten(call[1].type_arguments) = <<>> /\ IsOk(r)) =>
                  /\ r.val.generic_params = Take(Values(call[2]), Len(params))
                  /\ \A k \in DOMAIN comps, i \in DOMAIN params :
                        (i <= Len(call[2]) /\ comps[k].type_id = params[i]) => r.val.components[k] = call[2][i][2]
    /\ (CallOf(DeclsPairs, <<Arg(7, Some(<<Arg(6, None), Arg(5, None)>>))>>) /\ Returned) =>
          IsOk(result) /\ types = <<"s<bool,rawslice>(s<bool>(bool))">>

\* C20's case: in the resolved Holder<bool, raw slice>, the Child applied
\* without type arguments has its K bound to bool
C20_Witness ==
    /\ CallOf(DeclsPairs, <<Arg(7, Some(<<Arg(6, None), Arg(5, None)>>))>>)
    /\ Len(resolved) = 1
    /\ resolved[1].components[1].type_field = "struct Child"
    /\ resolved[1].components[1].generic_params = <<ResolvedType("bool", <<>>, <<>>)>>
    /\ resolved[1].components[1].components = <<ResolvedType("bool", <<>>, <<>>)>>

\* the smaller of two numbers
Min(a, b) == IF a < b THEN a ELSE b

\* C21: for a declaration with type parameters p1..pn and the chosen types
\* c1..cm (the resolved type arguments, or the parent's values when there are
\* none), the context for its components is exactly the min(n, m) pairs
\* (p_i, c_i) in order, and it is always Ok: no arity error. Surplus types are
\* dropped; a component that is a surplus parameter (one bound by no pair)
\* fails to resolve, and so does the application.
C21_PairingIsPositionalAndTruncates ==
    /\ \A call \in ReachedCalls :
          LET decl == type_lookup[call[1].type_id]
              params == flatten(decl.type_parameters)
              comps == flatten(decl.components)
              targs == resolve_each(flatten(call[1].type_arguments), type_lookup, call[2])
              chosen == IF targs.val # <<>> THEN targs.val ELSE Values(call[2])
              context == determine_generics_for_type(call[1], type_lookup, decl, call[2])
          IN  (Declared(call) /\ params # <<>> /\ IsOk(targs)) =>
                  /\ IsOk(context)
                  /\ Len(context.val) = Min(Len(params), Len(chosen))
                  /\ \A i \in DOMAIN context.val : context.val[i] = <<params[i], chosen[i]>>
                  /\ \A k \in DOMAIN comps, i \in DOMAIN params :
                        (/\ i > Len(chosen) /\ comps[k].type_id = params[i]
                         /\ \A j \in 1..Min(Len(params), Len(chosen)) : params[j] # params[i]
                         /\ comps[k].type_id \in DOMAIN type_lookup
                         /\ PlaceholderForm(type_lookup[comps[k].type_id].type_field)) =>
                            /\ resolve(comps[k], type_lookup, context.val).tag = "Err"
                            /\ resolve(call[1], type_lookup, call[2]).tag = "Err"
    /\ (CallOf(DeclsGenericStructs, <<Arg(2, Some(<<Arg(3, None), Arg(3, None)>>))>>) /\ Returned) =>
          /\ IsOk(result)
          /\ resolved[1].generic_params = <<ResolvedType("u8", <<>>, <<>>)>>
          /\ types = <<"s<u8>(u8)">>
    /\ (CallOf(DeclsPairs, <<Arg(3, Some(<<Arg(6, None)>>))>>) /\ Returned) => result.tag = "Err"

\* C21's case: the struct with two type parameters applied to one type
\* argument has returned Err, its second parameter being unbound
C21_Witness ==
    /\ CallOf(DeclsPairs, <<Arg(3, Some(<<Arg(6, None)>>))>>)
    /\ pc = "returned"
    /\ result.tag = "Err"
    /\ determine_generics_for_type(arguments[1], type_lookup, type_lookup[3], <<>>) = Ok(<<<<1, ResolvedType("bool", <<>>, <<>>)>>>>)

\* the application without its type arguments
WithoutTypeArguments(app) == [app EXCEPT !.type_arguments = None]

\* C22: where the declaration has no type parameters (None or an empty
\* list), resolving an application gives what resolving it without its type
\* arguments gives, also when a type argument has an undeclared id or would
\* not resolve; some_fn over the struct SomeStruct{u8} applied with a type
\* argument whose id is not declared gives some_fn(s(u8)).
C22_TypeArgumentsIgnoredWithoutParameters ==
    /\ \A call \in ReachedCalls :
          (Declared(call) /\ flatten(type_lookup[call[1].type_id].type_parameters) = <<>>) =>
              resolve(call[1], type_lookup, call[2]) = resolve(WithoutTypeArguments(call[1]), type_lookup, call[2])
    /\ (CallOf(DeclsStructs, <<Arg(2, Some(<<Arg(3, None)>>))>>) /\ Returned) =>
          IsOk(result) /\ (name = "some_fn" => result.val = "some_fn(s(u8))")
    /\ (CallOf(DeclsOddFields, <<Arg(4, Some(<<Arg(6, None)>>))>>) /\ Returned) =>
          IsOk(result) /\ types = <<fnselectify(try_from(Arg(4, None), type_lookup).val).val>>

\* C22's case: some_fn over SomeStruct applied with the type argument 3,
\* which the lookup does not declare, has returned its signature
C22_Witness ==
    /\ CallOf(DeclsStructs, <<Arg(2, Some(<<Arg(3, None)>>))>>)
    /\ 3 \notin DOMAIN type_lookup
    /\ type_lookup[2].type_parameters = None
    /\ pc = "returned"
    /\ result = Ok("some_fn(s(u8))")

\* the declaration `id` and every declaration reachable from it through
\* components declare no type parameters and are no generic placeholders
Closed(id, lookup) ==
    /\ id \in DOMAIN lookup
    /\ ~PlaceholderForm(lookup[id].type_field)
    /\ flatten(lookup[id].type_parameters) = <<>>
    /\ \A c \in Range(flatten(lookup[id].components)) : Closed(c.type_id, lookup)

\* C23: a struct or enum whose declaration, and every declaration reachable
\* from it, has no type parameters and is no placeholder is encoded, wherever
\* resolve meets it, as it is encoded as a top-level argument, with no <...>
\* segment after its letter.
C23_ClosedTypeEncodedAlike ==
    \A call \in ReachedCalls :
        LET type_field == type_lookup[call[1].type_id].type_field
            here == resolve(call[1], type_lookup, call[2])
            top == try_from(call[1], type_lookup)
        IN  (/\ Closed(call[1].type_id, type_lookup)
             /\ starts_with(type_field, "struct ") \/ starts_with(type_field, "enum ")
             /\ IsOk(here) /\ IsOk(top) /\ IsOk(fnselectify(top.val))) =>
                /\ fnselectify(here.val) = fnselectify(top.val)
                /\ CharAt(fnselectify(here.val).val, 2) = "("

\* C24: every argument that collect has resolved is what resolve gives for
\* that argument alone under the empty context, and its encoding is
\* fnselectify of that; equal arguments give equal results at any position;
\* a failing argument fails as it does alone, whatever was bound while the
\* arguments before it were resolved (a placeholder after a generic struct
\* instantiated with u8 is still unresolved).
C24_ArgumentsResolvedIndependently ==
    /\ \A i \in DOMAIN resolved : resolve(arguments[i], type_lookup, <<>>) = Ok(resolved[i])
    /\ \A i \in DOMAIN types : fnselectify(resolve(arguments[i], type_lookup, <<>>).val) = Ok(types[i])
    /\ \A i, j \in DOMAIN resolved : arguments[i] = arguments[j] => resolved[i] = resolved[j]
    /\ \A i, j \in DOMAIN types : arguments[i] = arguments[j] => types[i] = types[j]
    /\ (Returned /\ Len(types) < Len(arguments) /\ Len(resolved) = Len(types)) =>
          result = resolve(arguments[Len(types) + 1], type_lookup, <<>>)
    /\ (CallOf(DeclsGenericStructs, <<Arg(2, Some(<<Arg(3, None)>>)), Arg(1, None)>>) /\ Returned) =>
          types = <<"s<u8>(u8)">> /\ result.tag = "Err"

\* C24's case: after the generic struct over u8, which binds T while it is
\* resolved, the argument that is the placeholder T has failed to resolve
C24_Witness ==
    /\ CallOf(DeclsGenericStructs, <<Arg(2, Some(<<Arg(3, None)>>)), Arg(1, None)>>)
    /\ pc = "returned"
    /\ types = <<"s<u8>(u8)">>
    /\ result.tag = "Err"

\* the type_field starts with "(" and ends with ")"
TupleForm(type_field) ==
    /\ Len(type_field) >= 1
    /\ CharAt(type_field, 1) = "("
    /\ CharAt(type_field, Len(type_field)) = ")"

\* C25: a resolved type whose type_field starts with "(" and ends with ")",
\* its components being encodable, is encoded as "(" then the encodings of
\* its components in order with "," between them then ")", with nothing for
\* its generic_params even when it has some; "()" without components is
\* encoded "()", and some_fn over it gives some_fn(()).
C25_TupleEncoding ==
    /\ \A t \in ResolvedNodes :
          (TupleForm(t.type_field) /\ \A k \in DOMAIN t.components : IsOk(fnselectify(t.components[k]))) =>
              fnselectify(t) = Ok("(" \o CommaSeparated([k \in DOMAIN t.components |-> fnselectify(t.components[k]).val]) \o ")")
    /\ (CallOf(DeclsSimple("()"), <<Arg(0, None)>>) /\ Returned) =>
          IsOk(result) /\ types = <<"()">> /\ (name = "some_fn" => result.val = "some_fn(())")
    /\ (CallOf(DeclsForwarding, <<Arg(5, Some(<<Arg(2, None)>>))>>) /\ Returned) =>
          types = <<"s<u8>(e<u8>(a[(u8,u8);2]))">>

\* C25's case: the tuple inside Outer<u8> has u8 among its generic_params
\* and has been encoded (u8,u8)
C25_Witness ==
    /\ CallOf(DeclsForwarding, <<Arg(5, Some(<<Arg(2, None)>>))>>)
    /\ types = <<"s<u8>(e<u8>(a[(u8,u8);2]))">>
    /\ \E t \in ResolvedNodes :
          /\ t.type_field = "(_, _)"
          /\ t.generic_params = <<ResolvedType("u8", <<>>, <<>>)>>
          /\ Len(t.components) = 2
          /\ fnselectify(t) = Ok("(u8,u8)")

\* the type ids of the components of the declaration `id`; resolve follows
\* no component of a generic placeholder or of an undeclared id
Successors(id, lookup) ==
    IF id \in DOMAIN lookup /\ extract_generic_name(lookup[id].type_field) = None
    THEN {c.type_id : c \in Range(flatten(lookup[id].components))}
    ELSE {}

\* the type ids reachable from `ids` through components
ReachFrom(ids, lookup) ==
    LET further == ids \cup UNION {Successors(id, lookup) : id \in ids}
    IN  IF further = ids THEN ids ELSE ReachFrom(further, lookup)

\* the type ids an application applies, type arguments included
IdsOf(app) == {app.type_id} \cup UNION {IdsOf(ta) : ta \in Range(flatten(app.type_arguments))}

\* no declaration reachable from the argument reaches itself
AcyclicInput ==
    /\ argument # <<>>
    /\ \A id \in ReachFrom(IdsOf(argument), resolve_lookup) :
          id \notin ReachFrom(Successors(id, resolve_lookup), resolve_lookup)

\* the argument's declaration reaches itself through components
CyclicInput ==
    /\ argument # <<>>
    /\ argument.type_id \in ReachFrom(Successors(argument.type_id, resolve_lookup), resolve_lookup)

\* the size of the unfolded type graph of an application: the application,
\* its type arguments where the declaration has type parameters, and the
\* declaration's components, each unfolded in turn
UnfoldedSize(app, lookup) ==
    IF app.type_id \notin DOMAIN lookup \/ extract_generic_name(lookup[app.type_id].type_field) # None
    THEN 1
    ELSE 1 + (IF flatten(lookup[app.type_id].type_parameters) # <<>>
              THEN UnfoldedSizes(flatten(app.type_arguments), lookup)
              ELSE 0)
           + UnfoldedSizes(flatten(lookup[app.type_id].components), lookup)

UnfoldedSizes(apps, lookup) ==
    IF apps = <<>> THEN 0 ELSE UnfoldedSize(Head(apps), lookup) + UnfoldedSizes(Tail(apps), lookup)

\* C26: with no declaration reachable from the argument reaching itself, a
\* try_from in progress leads to its return with Ok or Err, the value resolve
\* is defined to give, after at most as many calls of resolve as the unfolded
\* type graph has nodes, and the stack never overflows.
C26_AcyclicResolutionTerminates ==
    (AcyclicInput /\ outcome = Running) ~>
        (/\ AcyclicInput
         /\ outcome.tag \in {"Ok", "Err"}
         /\ outcome = resolve(argument, resolve_lookup, <<>>)
         /\ calls <= UnfoldedSize(argument, resolve_lookup))

\* C26's case: Vec<u8> has been resolved by the seven calls of its unfolded
\* type graph
C26_Witness ==
    /\ resolve_lookup = Lookup(DeclsVectors)
    /\ argument = Arg(4, Some(<<Arg(6, None)>>))
    /\ AcyclicInput
    /\ IsOk(outcome)
    /\ calls = 7
    /\ UnfoldedSize(argument, resolve_lookup) = 7

\* C27: where the argument's declaration reaches itself through components,
\* try_from ends with Err, never with the stack overflowing.
C27_CyclicInputEndsWithErr ==
    CyclicInput => outcome.tag \in {"Running", "Err"}

\* C28: no step of a call changes the type lookup or the arguments it was
\* given, through any sequence of calls; and the application and the
\* context a call of resolve was given, and the context a caller passes to
\* the calls for its components, are what they were when the call made from
\* them returns.
C28_InputsAreOnlyRead ==
    [][/\ type_lookup' = type_lookup
       /\ arguments' = arguments
       /\ resolve_lookup' = resolve_lookup
       /\ argument' = argument
       /\ \A i \in DOMAIN frames \cap DOMAIN frames' :
             /\ frames'[i].type_application = frames[i].type_application
             /\ frames'[i].parent_generic_params = frames[i].parent_generic_params
             /\ (i < Len(frames) \/ frames[i].at = "components") =>
                   frames'[i].generic_params_lookup = frames[i].generic_params_lookup]_vars

\* C28's case: a call of resolve made with a context that binds a type has
\* returned to its caller, which has taken the result
C28_Witness ==
    /\ Len(frames) = 1
    /\ frames[1].at = "components"
    /\ frames[1].generic_params_lookup # <<>>
    /\ frames[1].collected # <<>>
    /\ frames[1].parent_generic_params = <<>>
    /\ frames[1].type_application = argument

\* the concrete types the program gave without metadata type id, and the
\* place of one among them
Lacking == {i \in DOMAIN program_abi.concrete_types : program_abi.concrete_types[i].metadata_type_id = None}

Rank(i) == Cardinality({j \in Lacking : j <= i})

\* a + k, when it is a usize
Sum(a, k) ==
    IF k = 0 THEN Some(a)
    ELSE IF a = USIZE_MAX THEN None
    ELSE Sum(wrapping_add_one(a), k - 1)

OriginalIds == {program_abi.metadata_types[i].metadata_type_id : i \in DOMAIN program_abi.metadata_types}

PassOver == unify_pc \in {"loop", "done"} /\ position > Len(program_abi.concrete_types)

\* C29: after the pass over the concrete types every concrete type has a
\* metadata type id; the k-th of those that had none has the id max + k (k
\* when there are no metadata types) and a synthesized declaration of its
\* type_field without components and type parameters, so the synthesized ids
\* are pairwise distinct and none is an original metadata id; a concrete type
\* that had an id keeps it; and the types returned are the original metadata
\* types in order, then the synthesized ones.
C29_SynthesizedIdsAreFresh ==
    PassOver =>
        /\ Len(extended_concrete_types) = Len(program_abi.concrete_types)
        /\ \A i \in DOMAIN extended_concrete_types :
              /\ extended_concrete_types[i].metadata_type_id # None
              /\ i \notin Lacking => extended_concrete_types[i] = program_abi.concrete_types[i]
              /\ i \in Lacking =>
                    /\ extended_concrete_types[i].metadata_type_id =
                          Sum(max_metadata_type_id(program_abi.metadata_types), Rank(i))
                    /\ extended_concrete_types[i].metadata_type_id[1] \notin OriginalIds
                    /\ \A j \in Lacking \ {i} :
                          extended_concrete_types[j].metadata_type_id # extended_concrete_types[i].metadata_type_id
                    /\ extended_metadata_types[Len(program_abi.metadata_types) + Rank(i)] =
                          TypeMetadataDeclaration(program_abi.concrete_types[i].type_field,
                                                  extended_concrete_types[i].metadata_type_id[1], None, None)
        /\ extended_metadata_types =
              program_abi.metadata_types
                  \o SubSeq(extended_metadata_types, Len(program_abi.metadata_types) + 1, Len(extended_metadata_types))
        /\ Len(extended_metadata_types) = Len(program_abi.metadata_types) + Cardinality(Lacking)
        /\ unified.tag = "Ok" =>
              /\ Len(unified.val.types) = Len(extended_metadata_types)
              /\ \A k \in DOMAIN unified.val.types :
                    /\ unified.val.types[k].type_id = extended_metadata_types[k].metadata_type_id
                    /\ unified.val.types[k].type_field = extended_metadata_types[k].type_field

\* the doc-comment attributes of the function doc_strings is called on
DocComments == SelectSeq(documented_function.attributes, is_doc_comment)

\* C30: doc_strings returns Ok with the single argument of each doc-comment
\* attribute, in attribute order, whatever other attributes there are, when
\* every doc-comment attribute has exactly one argument; when some
\* doc-comment attribute has another number of arguments, zero included, it
\* returns the error "doc-comment attribute must have one argument", and it
\* never aborts.
C30_DocStringsOrError ==
    doc_pc = "done" =>
        /\ docs.tag # "Panic"
        /\ IF \A i \in DOMAIN DocComments : Len(DocComments[i].arguments) = 1
           THEN docs = Ok([i \in DOMAIN DocComments |-> DocComments[i].arguments[1]])
           ELSE docs = error("'doc-comment' attribute must have one argument")

=============================================================================
